---- MODULE Spec2Model ----
(***************************************************************************)
(* A model of the Wardley-map core of the repository:                      *)
(*   - StrategicAnalyzer (strategic_analyzer.py): analyze and its passes;  *)
(*   - HeuristicsEngine (heuristics_engine.py): score_component.           *)
(*                                                                         *)
(* Scores are floats in the code.  Every score the code compares is a      *)
(* two-decimal literal, so the model keeps scores as integers in           *)
(* hundredths: 0.25 is 25, 0.55 is 55.  Comparisons are the code's.        *)
(*                                                                         *)
(* Text built with f-strings is kept as the sequence of its parts: the     *)
(* names it interpolates and the literal text around them.                 *)
(*                                                                         *)
(* analyze (line 51) carries a return annotation naming a class the module *)
(* never defines; the model takes the module as imported (annotations not  *)
(* evaluated at definition time) and models the body of analyze.           *)
(***************************************************************************)
EXTENDS Integers, Sequences, FiniteSets, TLC

VARIABLES components, dependencies, pc, analysis, insightsBy, done, recsSaw, stack, ret, paths, root, calls, sname, context, result, textA, textB, config, file, steps, locals, outcome

vars == <<components, dependencies, pc, analysis, insightsBy, done, recsSaw, stack, ret, paths, root, calls, sname, context, result, textA, textB, config, file, steps, locals, outcome>>

analyzerVars == <<components, dependencies, pc, analysis, insightsBy, done, recsSaw, stack, ret, paths, root, calls>>

analyzerVarsButPc == <<components, dependencies, analysis, insightsBy, done, recsSaw, stack, ret, paths, root, calls>>

scorerVars == <<sname, context, result>>

matcherVars == <<textA, textB>>

(***************************************************************************)
(* Sequence helpers.                                                       *)
(***************************************************************************)
Range(s) == {s[i] : i \in 1..Len(s)}

Take(s, n) == SubSeq(s, 1, IF Len(s) < n THEN Len(s) ELSE n)

SeqsUpTo(S, n) == UNION {[1..k -> S] : k \in 0..n}

(***************************************************************************)
(* Data model of strategic_analyzer.py.                                    *)
(***************************************************************************)
\* StrategicInsight: type, component and title as in the code; `about` holds
\* the names and labels the description and recommendation interpolate besides
\* the component's own name; `count` is the number the description prints.
StrategicInsight(type, component, title, about, count) ==
    [type |-> type, component |-> component, title |-> title, about |-> about, count |-> count]

\* MapAnalysis(total_components, total_dependencies): the other fields default
\* to empty collections.  evolution_trajectory, a dict in insertion order, is a
\* sequence of <<name, trajectory>> entries (component names are unique).
MapAnalysis(total_components, total_dependencies) ==
    [total_components |-> total_components,
     total_dependencies |-> total_dependencies,
     insights |-> <<>>,
     vulnerabilities |-> <<>>,
     opportunities |-> <<>>,
     threats |-> <<>>,
     strategic_recommendations |-> <<>>,
     evolution_trajectory |-> <<>>,
     competitive_advantages |-> <<>>,
     critical_path |-> <<>>]

\* What a pass hands back: the analysis it mutated, or the exception it raised.
Returned(a) == [raised |-> FALSE, error |-> "", analysis |-> a]

Raised(error, a) == [raised |-> TRUE, error |-> error, analysis |-> a]

\* _stage_label
StageLabel(evolution) ==
    IF evolution < 25 THEN "Genesis"
    ELSE IF evolution < 55 THEN "Custom"
    ELSE IF evolution < 80 THEN "Product"
    ELSE "Commodity"

\* `for source, target in dependencies` (lines 412, 421) unpacks every entry
\* into two names: an entry of any other length is a ValueError.
UnpacksAsPairs(deps) == \A i \in 1..Len(deps) : Len(deps[i]) = 2

\* _build_dependency_graph: source -> list of targets, in edge-list order.
BuildDependencyGraph(deps) ==
    [s \in {deps[i][1] : i \in 1..Len(deps)} |->
        LET RECURSIVE Targets(_)
            Targets(i) == IF i > Len(deps) THEN <<>>
                          ELSE IF deps[i][1] = s THEN <<deps[i][2]>> \o Targets(i + 1)
                          ELSE Targets(i + 1)
        IN Targets(1)]

\* _build_reverse_dependency_graph: target -> list of sources, in edge-list order.
BuildReverseDependencyGraph(deps) ==
    [t \in {deps[i][2] : i \in 1..Len(deps)} |->
        LET RECURSIVE Sources(_)
            Sources(i) == IF i > Len(deps) THEN <<>>
                          ELSE IF deps[i][2] = t THEN <<deps[i][1]>> \o Sources(i + 1)
                          ELSE Sources(i + 1)
        IN Sources(1)]

\* dict.get(key, [])
GraphGet(graph, key) == IF key \in DOMAIN graph THEN graph[key] ELSE <<>>

(***************************************************************************)
(* The passes of analyze.  Each takes the analysis built so far and gives  *)
(* back what the method leaves: the mutated analysis, or an exception.     *)
(***************************************************************************)
\* Mutant of StrengthsOf: the Genesis rule with the visibility threshold of the
\* Custom rule (0.4 for 0.5).
StrengthsOf_GenesisAtCustomVisibility(comp, a) ==
    LET a1 == IF 25 <= comp.evolution /\ comp.evolution <= 55 /\ comp.visibility >= 40
              THEN [a EXCEPT !.insights = Append(@, StrategicInsight("strength", comp.name,
                                "Core Competitive Advantage", <<StageLabel(comp.evolution)>>, 0)),
                             !.competitive_advantages = Append(@, comp.name)]
              ELSE a
    IN IF comp.evolution < 25 /\ comp.visibility >= 40
       THEN [a1 EXCEPT !.insights = Append(@, StrategicInsight("strength", comp.name,
                                "Innovation Leader", <<>>, 0)),
                       !.competitive_advantages = Append(@, comp.name)]
       ELSE a1

\* _identify_strengths, one component (the body of the for loop).
StrengthsOf(comp, a) ==
    LET a1 == IF 25 <= comp.evolution /\ comp.evolution <= 55 /\ comp.visibility >= 40
              THEN [a EXCEPT !.insights = Append(@, StrategicInsight("strength", comp.name,
                                "Core Competitive Advantage", <<StageLabel(comp.evolution)>>, 0)),
                             !.competitive_advantages = Append(@, comp.name)]
              ELSE a
    IN IF comp.evolution < 25 /\ comp.visibility >= 50
       THEN [a1 EXCEPT !.insights = Append(@, StrategicInsight("strength", comp.name,
                                "Innovation Leader", <<>>, 0)),
                       !.competitive_advantages = Append(@, comp.name)]
       ELSE a1

RECURSIVE StrengthsLoop(_, _, _)
StrengthsLoop(comps, i, a) ==
    IF i > Len(comps) THEN a ELSE StrengthsLoop(comps, i + 1, StrengthsOf(comps[i], a))

\* _identify_strengths
IdentifyStrengths(comps, deps, a) == Returned(StrengthsLoop(comps, 1, a))

\* Mutant of TargetComp: the first component, whatever its name.
TargetComp_FirstComponent(comps, dep_target) ==
    IF comps = <<>> THEN [found |-> FALSE, evolution |-> 0]
    ELSE [found |-> TRUE, evolution |-> comps[1].evolution]

\* next((c for c in components if c['name'] == dep_target), None): the first
\* component of that name, or none.
TargetComp(comps, dep_target) ==
    LET idx == {i \in 1..Len(comps) : comps[i].name = dep_target}
    IN IF idx = {} THEN [found |-> FALSE, evolution |-> 0]
       ELSE [found |-> TRUE,
             evolution |-> comps[CHOOSE i \in idx : \A j \in idx : i <= j].evolution]

\* The inner loop of _identify_vulnerabilities (lines 146-164) over the targets
\* of one high-visibility component.
RECURSIVE InfrastructureRisks(_, _, _, _, _)
InfrastructureRisks(comps, cname, targets, k, a) ==
    IF k > Len(targets) THEN a
    ELSE LET dep_target == targets[k]
             target_comp == TargetComp(comps, dep_target)
         IN InfrastructureRisks(comps, cname, targets, k + 1,
                IF target_comp.found /\ target_comp.evolution >= 80
                THEN [a EXCEPT !.insights = Append(@, StrategicInsight("vulnerability", cname,
                                    "Infrastructure Risk", <<dep_target>>, 0)),
                               !.vulnerabilities = Append(@, <<cname, " -> ", dep_target>>)]
                ELSE a)

\* The local variable `deps` of _identify_vulnerabilities: assigned only inside
\* `if visibility >= 0.7` (line 145), read at line 168 for every Custom
\* component.  It is unbound until the first assignment and afterwards keeps
\* the value of the last assignment.
UnboundDeps == [bound |-> FALSE, val |-> <<>>]

BoundDeps(v) == [bound |-> TRUE, val |-> v]

\* The body of the for loop of _identify_vulnerabilities for component i,
\* then the rest of the loop.  `deps` is the local variable as the previous
\* iteration left it.
RECURSIVE VulnerabilitiesLoop(_, _, _, _, _)
VulnerabilitiesLoop(comps, dep_graph, i, deps, a) ==
    IF i > Len(comps) THEN Returned(a)
    ELSE LET comp == comps[i]
             deps1 == IF comp.visibility >= 70
                      THEN BoundDeps(GraphGet(dep_graph, comp.name))
                      ELSE deps
             a1 == IF comp.visibility >= 70
                   THEN InfrastructureRisks(comps, comp.name, deps1.val, 1, a)
                   ELSE a
         IN IF 25 <= comp.evolution /\ comp.evolution <= 55
            THEN IF ~deps1.bound
                 THEN Raised("UnboundLocalError", a1)
                 ELSE LET providers == Range(deps1.val)
                          a2 == IF Len(deps1.val) > 0 /\ Cardinality(providers) = 1
                                THEN LET p == CHOOSE x \in providers : TRUE
                                     IN [a1 EXCEPT
                                           !.insights = Append(@, StrategicInsight("vulnerability",
                                                comp.name, "Single Point of Failure", <<p>>, 0)),
                                           !.vulnerabilities = Append(@,
                                                <<comp.name, ": Single source - ", p>>)]
                                ELSE a1
                      IN VulnerabilitiesLoop(comps, dep_graph, i + 1, deps1, a2)
            ELSE VulnerabilitiesLoop(comps, dep_graph, i + 1, deps1, a1)

\* _identify_vulnerabilities
IdentifyVulnerabilities(comps, deps, a) ==
    IF ~UnpacksAsPairs(deps) THEN Raised("ValueError", a)
    ELSE VulnerabilitiesLoop(comps, BuildDependencyGraph(deps), 1, UnboundDeps, a)

\* _identify_opportunities, one component.
OpportunitiesOf(comp, a) ==
    LET a1 == IF 40 <= comp.evolution /\ comp.evolution <= 55 /\ comp.visibility >= 40
              THEN [a EXCEPT !.insights = Append(@, StrategicInsight("opportunity", comp.name,
                                "Commoditization Opportunity", <<>>, 0)),
                             !.opportunities = Append(@, <<comp.name>>)]
              ELSE a
        a2 == IF comp.evolution < 25
              THEN [a1 EXCEPT !.insights = Append(@, StrategicInsight("opportunity", comp.name,
                                "Market Disruption Potential", <<>>, 0)),
                              !.opportunities = Append(@, <<comp.name>>)]
              ELSE a1
    IN IF comp.evolution >= 85 /\ comp.visibility >= 70
       THEN [a2 EXCEPT !.insights = Append(@, StrategicInsight("opportunity", comp.name,
                                "Expansion Opportunity", <<>>, 0)),
                       !.opportunities = Append(@, <<comp.name, " (expansion)">>)]
       ELSE a2

RECURSIVE OpportunitiesLoop(_, _, _)
OpportunitiesLoop(comps, i, a) ==
    IF i > Len(comps) THEN a ELSE OpportunitiesLoop(comps, i + 1, OpportunitiesOf(comps[i], a))

\* _identify_opportunities
IdentifyOpportunities(comps, deps, a) == Returned(OpportunitiesLoop(comps, 1, a))

\* _identify_threats, one component.
ThreatsOf(comp, a) ==
    LET a1 == IF 30 <= comp.evolution /\ comp.evolution <= 45
              THEN [a EXCEPT !.insights = Append(@, StrategicInsight("threat", comp.name,
                                "Commoditization Threat", <<>>, 0)),
                             !.threats = Append(@, <<comp.name>>)]
              ELSE a
    IN IF 55 <= comp.evolution /\ comp.evolution < 80
       THEN [a1 EXCEPT !.insights = Append(@, StrategicInsight("threat", comp.name,
                                "Increasing Competition", <<>>, 0)),
                       !.threats = Append(@, <<comp.name, " (competition)">>)]
       ELSE a1

RECURSIVE ThreatsLoop(_, _, _)
ThreatsLoop(comps, i, a) ==
    IF i > Len(comps) THEN a ELSE ThreatsLoop(comps, i + 1, ThreatsOf(comps[i], a))

\* _identify_threats
IdentifyThreats(comps, deps, a) == Returned(ThreatsLoop(comps, 1, a))

\* _identify_bottlenecks, one component: `dependents` is the list the reverse
\* graph holds for the name, one entry per edge.
BottleneckOf(comp, reverse_dep_graph, a) ==
    LET dependents == GraphGet(reverse_dep_graph, comp.name)
    IN IF Len(dependents) >= 3 /\ comp.evolution < 70
       THEN [a EXCEPT !.insights = Append(@, StrategicInsight("bottleneck", comp.name,
                        "Critical Bottleneck", <<StageLabel(comp.evolution)>>, Len(dependents)))]
       ELSE a

RECURSIVE BottlenecksLoop(_, _, _, _)
BottlenecksLoop(comps, reverse_dep_graph, i, a) ==
    IF i > Len(comps) THEN a
    ELSE BottlenecksLoop(comps, reverse_dep_graph, i + 1, BottleneckOf(comps[i], reverse_dep_graph, a))

\* _identify_bottlenecks
IdentifyBottlenecks(comps, deps, a) ==
    IF ~UnpacksAsPairs(deps) THEN Raised("ValueError", a)
    ELSE Returned(BottlenecksLoop(comps, BuildReverseDependencyGraph(deps), 1, a))

\* Mutant of ReadinessOf: a Genesis component heads for Custom.
ReadinessOf_GenesisToCustom(comp, a) ==
    IF comp.evolution >= 80 THEN a
    ELSE LET current == IF comp.evolution < 25 THEN "Genesis"
                        ELSE IF comp.evolution < 55 THEN "Custom" ELSE "Product"
             stage_target == IF comp.evolution < 25 THEN "Custom"
                             ELSE IF comp.evolution < 55 THEN "Product" ELSE "Commodity"
         IN [a EXCEPT !.insights = Append(@, StrategicInsight("evolution_readiness", comp.name,
                            "Evolution Path", <<current, stage_target>>, 0)),
                      !.evolution_trajectory = Append(@, <<comp.name, <<current, " -> ", stage_target>>>>)]

\* _assess_evolution_readiness, one component.
ReadinessOf(comp, a) ==
    IF comp.evolution >= 80 THEN a
    ELSE LET current == IF comp.evolution < 25 THEN "Genesis"
                        ELSE IF comp.evolution < 55 THEN "Custom" ELSE "Product"
             stage_target == IF comp.evolution < 55 THEN "Product" ELSE "Commodity"
         IN [a EXCEPT !.insights = Append(@, StrategicInsight("evolution_readiness", comp.name,
                            "Evolution Path", <<current, stage_target>>, 0)),
                      !.evolution_trajectory = Append(@, <<comp.name, <<current, " -> ", stage_target>>>>)]

RECURSIVE ReadinessLoop(_, _, _)
ReadinessLoop(comps, i, a) ==
    IF i > Len(comps) THEN a ELSE ReadinessLoop(comps, i + 1, ReadinessOf(comps[i], a))

\* _assess_evolution_readiness
AssessEvolutionReadiness(comps, deps, a) == Returned(ReadinessLoop(comps, 1, a))

\* _dfs_longest_path(start, graph, components, visited): DfsLongestPath is the
\* method, DfsNeighbors its for loop over graph[start] from neighbour k on.
RECURSIVE DfsLongestPath(_, _, _), DfsNeighbors(_, _, _, _, _)
RECURSIVE DfsNeighbors_KeepsLast(_, _, _, _, _)
DfsLongestPath(start, graph, visited) ==
    IF start \in visited THEN <<start>>
    ELSE IF start \notin DOMAIN graph \/ graph[start] = <<>> THEN <<start>>
    ELSE DfsNeighbors(start, graph, visited \cup {start}, 1, <<start>>)

\* Mutant of DfsNeighbors: a path as long as the longest so far replaces it
\* (>= for >), so that among equally long paths the last found is kept.
DfsNeighbors_KeepsLast(start, graph, visited, k, longest) ==
    IF k > Len(graph[start]) THEN longest
    ELSE LET path == DfsLongestPath(graph[start][k], graph, visited)
         IN DfsNeighbors_KeepsLast(start, graph, visited, k + 1,
                IF Len(path) + 1 >= Len(longest) THEN <<start>> \o path ELSE longest)

DfsNeighbors(start, graph, visited, k, longest) ==
    IF k > Len(graph[start]) THEN longest
    ELSE LET path == DfsLongestPath(graph[start][k], graph, visited)
         IN DfsNeighbors(start, graph, visited, k + 1,
                IF Len(path) + 1 > Len(longest) THEN <<start>> \o path ELSE longest)

\* longest_paths.sort(key=len, reverse=True); longest_paths[0]: the sort is
\* stable, so the first of the longest paths.
FirstLongest(longest_paths) ==
    longest_paths[CHOOSE i \in 1..Len(longest_paths) :
        /\ \A j \in 1..Len(longest_paths) : Len(longest_paths[j]) <= Len(longest_paths[i])
        /\ \A j \in 1..(i - 1) : Len(longest_paths[j]) < Len(longest_paths[i])]

\* The for loop of _identify_critical_path: one path per genesis component.
RECURSIVE CollectPaths(_, _, _)
CollectPaths(comps, dep_graph, i) ==
    IF i > Len(comps) THEN <<>>
    ELSE IF comps[i].evolution < 25
         THEN <<DfsLongestPath(comps[i].name, dep_graph, {})>> \o CollectPaths(comps, dep_graph, i + 1)
         ELSE CollectPaths(comps, dep_graph, i + 1)

\* _identify_critical_path
IdentifyCriticalPath(comps, deps, a) ==
    IF ~UnpacksAsPairs(deps) THEN Raised("ValueError", a)
    ELSE LET longest_paths == CollectPaths(comps, BuildDependencyGraph(deps), 1)
         IN Returned(IF longest_paths # <<>>
                     THEN [a EXCEPT !.critical_path = FirstLongest(longest_paths)]
                     ELSE a)

\* [c['name'] for c in cs]
NamesOf(cs) == [i \in 1..Len(cs) |-> cs[i].name]

\* `c['name'] in d` (line 384), d a vulnerability entry: substring containment.
\* Component names are taken from an alphabet where no name is part of another
\* name or of the entry's literal text, so a name is in d exactly when it is
\* one of the names d was built from.
NameIn(cname, d) == cname \in Range(d)

\* Mutant of GenerateRecommendations: the supply-chain recommendation for a
\* named component of any visibility.
GenerateRecommendations_AnyVisibility(comps, deps, a) ==
    LET IsGenesis(c) == c.evolution < 25
        IsCustomDiff(c) == 25 <= c.evolution /\ c.evolution <= 55 /\ c.visibility >= 40
        IsProductReady(c) == 40 <= c.evolution /\ c.evolution <= 55
        genesis_comps == NamesOf(SelectSeq(comps, IsGenesis))
        custom_comps == NamesOf(SelectSeq(comps, IsCustomDiff))
        commodity_deps == {<<i, j>> \in (1..Len(comps)) \X (1..Len(a.vulnerabilities)) :
                              NameIn(comps[i].name, a.vulnerabilities[j])}
        product_ready == NamesOf(SelectSeq(comps, IsProductReady))
        r1 == IF genesis_comps # <<>>
              THEN <<<<"INNOVATION LEADERSHIP">> \o Take(genesis_comps, 3)>> ELSE <<>>
        r2 == IF custom_comps # <<>>
              THEN <<<<"COMPETITIVE MOAT">> \o Take(custom_comps, 3)>> ELSE <<>>
        r3 == IF commodity_deps # {} THEN <<<<"SUPPLY CHAIN RESILIENCE">>>> ELSE <<>>
        r4 == IF product_ready # <<>>
              THEN <<<<"NEW REVENUE STREAMS">> \o Take(product_ready, 3)>> ELSE <<>>
        r5 == IF a.evolution_trajectory # <<>> THEN <<<<"EVOLUTIONARY PLANNING">>>> ELSE <<>>
    IN Returned([a EXCEPT !.strategic_recommendations = r1 \o r2 \o r3 \o r4 \o r5])

\* Mutant of GenerateRecommendations: the competitive-moat recommendation is
\* made from analysis.competitive_advantages, the list of the strengths pass,
\* in place of the components.
GenerateRecommendations_ReadsStrengths(comps, deps, a) ==
    LET IsGenesis(c) == c.evolution < 25
        IsProductReady(c) == 40 <= c.evolution /\ c.evolution <= 55
        genesis_comps == NamesOf(SelectSeq(comps, IsGenesis))
        custom_comps == a.competitive_advantages
        commodity_deps == {<<i, j>> \in (1..Len(comps)) \X (1..Len(a.vulnerabilities)) :
                              NameIn(comps[i].name, a.vulnerabilities[j]) /\ comps[i].visibility >= 70}
        product_ready == NamesOf(SelectSeq(comps, IsProductReady))
        r1 == IF genesis_comps # <<>>
              THEN <<<<"INNOVATION LEADERSHIP">> \o Take(genesis_comps, 3)>> ELSE <<>>
        r2 == IF custom_comps # <<>>
              THEN <<<<"COMPETITIVE MOAT">> \o Take(custom_comps, 3)>> ELSE <<>>
        r3 == IF commodity_deps # {} THEN <<<<"SUPPLY CHAIN RESILIENCE">>>> ELSE <<>>
        r4 == IF product_ready # <<>>
              THEN <<<<"NEW REVENUE STREAMS">> \o Take(product_ready, 3)>> ELSE <<>>
        r5 == IF a.evolution_trajectory # <<>> THEN <<<<"EVOLUTIONARY PLANNING">>>> ELSE <<>>
    IN Returned([a EXCEPT !.strategic_recommendations = r1 \o r2 \o r3 \o r4 \o r5])

\* _generate_recommendations
GenerateRecommendations(comps, deps, a) ==
    LET IsGenesis(c) == c.evolution < 25
        IsCustomDiff(c) == 25 <= c.evolution /\ c.evolution <= 55 /\ c.visibility >= 40
        IsProductReady(c) == 40 <= c.evolution /\ c.evolution <= 55
        genesis_comps == NamesOf(SelectSeq(comps, IsGenesis))
        custom_comps == NamesOf(SelectSeq(comps, IsCustomDiff))
        commodity_deps == {<<i, j>> \in (1..Len(comps)) \X (1..Len(a.vulnerabilities)) :
                              NameIn(comps[i].name, a.vulnerabilities[j]) /\ comps[i].visibility >= 70}
        product_ready == NamesOf(SelectSeq(comps, IsProductReady))
        r1 == IF genesis_comps # <<>>
              THEN <<<<"INNOVATION LEADERSHIP">> \o Take(genesis_comps, 3)>> ELSE <<>>
        r2 == IF custom_comps # <<>>
              THEN <<<<"COMPETITIVE MOAT">> \o Take(custom_comps, 3)>> ELSE <<>>
        r3 == IF commodity_deps # {} THEN <<<<"SUPPLY CHAIN RESILIENCE">>>> ELSE <<>>
        r4 == IF product_ready # <<>>
              THEN <<<<"NEW REVENUE STREAMS">> \o Take(product_ready, 3)>> ELSE <<>>
        r5 == IF a.evolution_trajectory # <<>> THEN <<<<"EVOLUTIONARY PLANNING">>>> ELSE <<>>
    IN Returned([a EXCEPT !.strategic_recommendations = r1 \o r2 \o r3 \o r4 \o r5])

(***************************************************************************)
(* analyze: the passes, in the order of lines 67-89.                       *)
(***************************************************************************)
PassOrder ==
    <<"strengths", "vulnerabilities", "opportunities", "threats", "bottlenecks",
      "readiness", "critical_path", "recommendations">>

Passes == Range(PassOrder)

\* The method analyze calls for a pass.
RunPass(pass, comps, deps, a) ==
    CASE pass = "strengths" -> IdentifyStrengths(comps, deps, a)
      [] pass = "vulnerabilities" -> IdentifyVulnerabilities(comps, deps, a)
      [] pass = "opportunities" -> IdentifyOpportunities(comps, deps, a)
      [] pass = "threats" -> IdentifyThreats(comps, deps, a)
      [] pass = "bottlenecks" -> IdentifyBottlenecks(comps, deps, a)
      [] pass = "readiness" -> AssessEvolutionReadiness(comps, deps, a)
      [] pass = "critical_path" -> IdentifyCriticalPath(comps, deps, a)
      [] pass = "recommendations" -> GenerateRecommendations(comps, deps, a)

\* The passes from position k of `order` on; an exception ends the call.
RECURSIVE RunPasses(_, _, _, _, _)
RunPasses(order, k, comps, deps, a) ==
    IF k > Len(order) THEN Returned(a)
    ELSE LET r == RunPass(order[k], comps, deps, a)
         IN IF r.raised THEN r ELSE RunPasses(order, k + 1, comps, deps, r.analysis)

\* analyze(components, dependencies)
AnalyzeResult(comps, deps) ==
    RunPasses(PassOrder, 1, comps, deps, MapAnalysis(Len(comps), Len(deps)))


(***************************************************************************)
(* HeuristicsEngine (heuristics_engine.py).  A string is the sequence of   *)
(* its characters, a character a one-character string; a score is a whole  *)
(* number of hundredths.  An operation of the code that can raise gives    *)
(* Raises(error), any other Value(v).                                      *)
(***************************************************************************)
Value(v) == [raised |-> FALSE, value |-> v]

Raises(error) == [raised |-> TRUE, error |-> error]

UpperLetters ==
    <<"A", "B", "C", "D", "E", "F", "G", "H", "I", "J", "K", "L", "M",
      "N", "O", "P", "Q", "R", "S", "T", "U", "V", "W", "X", "Y", "Z">>

LowerLetters ==
    <<"a", "b", "c", "d", "e", "f", "g", "h", "i", "j", "k", "l", "m",
      "n", "o", "p", "q", "r", "s", "t", "u", "v", "w", "x", "y", "z">>

\* str.lower() on one character.  "I-dot" stands for U+0130, the one character
\* whose lower case is two characters (i and the combining dot, "dot-above").
LowerChar(c) ==
    IF \E i \in 1..Len(UpperLetters) : UpperLetters[i] = c
    THEN <<LowerLetters[CHOOSE i \in 1..Len(UpperLetters) : UpperLetters[i] = c]>>
    ELSE IF c = "I-dot" THEN <<"i", "dot-above">>
    ELSE <<c>>

RECURSIVE Lower(_)
\* str.lower()
Lower(s) == IF s = <<>> THEN <<>> ELSE LowerChar(Head(s)) \o Lower(Tail(s))

Whitespace == {" ", "\t"}

RECURSIVE Strip(_)
\* str.strip(): leading and trailing whitespace removed.
Strip(s) ==
    IF s = <<>> THEN s
    ELSE IF s[1] \in Whitespace THEN Strip(Tail(s))
    ELSE IF s[Len(s)] \in Whitespace THEN Strip(SubSeq(s, 1, Len(s) - 1))
    ELSE s

\* `a in b` for strings: a is a substring of b (the empty string of any).
IsSubstring(a, b) ==
    \E i \in 0..(Len(b) - Len(a)) : SubSeq(b, i + 1, i + Len(a)) = a

\* str.replace(' ', '_')
RECURSIVE ReplaceSpaces(_)
ReplaceSpaces(s) ==
    IF s = <<>> THEN <<>>
    ELSE <<IF Head(s) = " " THEN "_" ELSE Head(s)>> \o ReplaceSpaces(Tail(s))

Min3(a, b, c) == IF a <= b /\ a <= c THEN a ELSE IF b <= c THEN b ELSE c

\* Mutant of ScoreToStage: the score 0.25 still Genesis.
ScoreToStage_QuarterIsGenesis(score) ==
    IF score <= 25 THEN "Genesis"
    ELSE IF score < 55 THEN "Custom"
    ELSE IF score < 80 THEN "Product"
    ELSE "Commodity"

\* _score_to_stage
ScoreToStage(score) ==
    IF score < 25 THEN "Genesis"
    ELSE IF score < 55 THEN "Custom"
    ELSE IF score < 80 THEN "Product"
    ELSE "Commodity"

\* Mutant of StageToScore: the Commodity stage scored in percent (90) where
\* the scale is 0 to 1, that is 9000 hundredths.
StageToScore_CommodityInPercent(stage) ==
    CASE stage = "GENESIS" -> 15
      [] stage = "CUSTOM" -> 40
      [] stage = "PRODUCT" -> 70
      [] stage = "COMMODITY" -> 9000
      [] OTHER -> 50

\* _stage_to_score: mapping.get(stage, 0.5)
StageToScore(stage) ==
    CASE stage = "GENESIS" -> 15
      [] stage = "CUSTOM" -> 40
      [] stage = "PRODUCT" -> 70
      [] stage = "COMMODITY" -> 90
      [] OTHER -> 50

\* In the two definitions that follow, {e(x) : x \in {v}} is the set of the
\* one value e(v), and CHOOSE takes it out of the set: written so, v is
\* computed once, however often e reads it.
RECURSIVE LevCurrentRow(_, _, _, _, _)
\* The inner loop of _levenshtein_similarity (lines 479-483) from position j
\* of s2 on: current_row grows by one cell per character of s2.
LevCurrentRow(c1, s2, previous_row, j, current_row) ==
    IF j > Len(s2) THEN current_row
    ELSE LET insertions == previous_row[j + 1] + 1
             deletions == current_row[j] + 1
             substitutions == previous_row[j] + (IF c1 # s2[j] THEN 1 ELSE 0)
         IN CHOOSE row \in {LevCurrentRow(c1, s2, previous_row, j + 1, appended) :
                              appended \in {Append(current_row, Min3(insertions, deletions, substitutions))}} : TRUE

RECURSIVE LevRows(_, _, _, _)
\* The outer loop (lines 477-484) from character i of s1 on (i counts from 1,
\* enumerate from 0: current_row starts with [i + 1], here <<i>>).
LevRows(s1, s2, i, previous_row) ==
    IF i > Len(s1) THEN previous_row
    ELSE CHOOSE last \in {LevRows(s1, s2, i + 1, current_row) :
                            current_row \in {LevCurrentRow(s1[i], s2, previous_row, 1, <<i>>)}} : TRUE

\* distance / max_length: ZeroDivisionError when max_length is 0.  A ratio is
\* kept as the pair <<numerator, denominator>>.
Divide(distance, max_length) ==
    IF max_length = 0 THEN Raises("ZeroDivisionError") ELSE Value(<<distance, max_length>>)

RECURSIVE LevenshteinSimilarity(_, _)
\* _levenshtein_similarity: the similarity 1.0 - distance / max_length as the
\* ratio <<max_length - distance, max_length>>, 0.0 as <<0, 1>>.
LevenshteinSimilarity(s1, s2) ==
    IF Len(s1) < Len(s2) THEN LevenshteinSimilarity(s2, s1)
    ELSE IF Len(s2) = 0 THEN Value(<<0, 1>>)
    ELSE LET previous_row == LevRows(s1, s2, 1, [j \in 1..(Len(s2) + 1) |-> j - 1])
             distance == previous_row[Len(previous_row)]
             max_length == IF Len(s1) >= Len(s2) THEN Len(s1) ELSE Len(s2)
             q == Divide(distance, max_length)
         IN IF q.raised THEN q ELSE Value(<<q.value[2] - q.value[1], q.value[2]>>)

\* _fuzzy_match(text1, text2), threshold = 0.8 = 4/5: similarity > threshold.
\* The similarities of strings this short differ from 0.8 by far more than a
\* rounding error unless they are 0.8, and 1.0 - 0.2 > 0.8 is False in floating
\* point as in the rationals.
FuzzyMatch(text1, text2) ==
    LET text1_lower == Strip(Lower(text1))
        text2_lower == Strip(Lower(text2))
    IN IF text1_lower = text2_lower THEN Value(TRUE)
       ELSE IF IsSubstring(text1_lower, text2_lower) \/ IsSubstring(text2_lower, text1_lower)
            THEN Value(TRUE)
       ELSE LET sim == LevenshteinSimilarity(text1_lower, text2_lower)
            IN IF sim.raised THEN sim
               ELSE Value(5 * sim.value[1] > 4 * sim.value[2])

RECURSIVE LevenshteinDistance(_, _)
\* LinkValidator._levenshtein_distance (link_validator.py 265-293): the loop is
\* that of _levenshtein_similarity, character for character.
LevenshteinDistance(s1, s2) ==
    IF Len(s1) < Len(s2) THEN LevenshteinDistance(s2, s1)
    ELSE IF Len(s2) = 0 THEN Len(s1)
    ELSE LET previous_row == LevRows(s1, s2, 1, [j \in 1..(Len(s2) + 1) |-> j - 1])
         IN previous_row[Len(previous_row)]

\* Mutant of CalculateSimilarity: the substring test in one direction only.
CalculateSimilarity_OneWaySubstring(str1, str2) ==
    LET s1 == Lower(str1)
        s2 == Lower(str2)
    IN IF s1 = s2 THEN Value(<<1, 1>>)
       ELSE IF IsSubstring(s1, s2) THEN Value(<<17, 20>>)
       ELSE LET distance == LevenshteinDistance(s1, s2)
                max_len == IF Len(s1) >= Len(s2) THEN Len(s1) ELSE Len(s2)
                q == Divide(distance, max_len)
            IN IF q.raised THEN q ELSE Value(<<q.value[2] - q.value[1], q.value[2]>>)

\* LinkValidator._calculate_similarity (link_validator.py 231-263): 1.0 as
\* <<1, 1>>, 0.85 as <<17, 20>>, 1.0 - distance / max_len as
\* <<max_len - distance, max_len>>.
CalculateSimilarity(str1, str2) ==
    LET s1 == Lower(str1)
        s2 == Lower(str2)
    IN IF s1 = s2 THEN Value(<<1, 1>>)
       ELSE IF IsSubstring(s1, s2) \/ IsSubstring(s2, s1) THEN Value(<<17, 20>>)
       ELSE LET distance == LevenshteinDistance(s1, s2)
                max_len == IF Len(s1) >= Len(s2) THEN Len(s1) ELSE Len(s2)
                q == Divide(distance, max_len)
            IN IF q.raised THEN q ELSE Value(<<q.value[2] - q.value[1], q.value[2]>>)

\* self.patterns, in the order of the dict (lines 104-214): name, default_stage,
\* default_visibility in hundredths, examples.  A string is the sequence of its
\* characters.
patterns ==
    <<
      [name |-> <<"P", "o", "s", "t", "g", "r", "e", "S", "Q", "L">>, default_stage |-> "COMMODITY", default_visibility |-> 15,
       examples |-> <<<<"R", "e", "l", "a", "t", "i", "o", "n", "a", "l", " ", "D", "B">>,
                      <<"R", "D", "B", "M", "S">>,
                      <<"S", "Q", "L", " ", "D", "a", "t", "a", "b", "a", "s", "e">>>>],
      [name |-> <<"M", "y", "S", "Q", "L">>, default_stage |-> "COMMODITY", default_visibility |-> 15,
       examples |-> <<<<"M", "y", "S", "Q", "L">>,
                      <<"M", "a", "r", "i", "a", "D", "B">>>>],
      [name |-> <<"M", "o", "n", "g", "o", "D", "B">>, default_stage |-> "PRODUCT", default_visibility |-> 15,
       examples |-> <<<<"N", "o", "S", "Q", "L", " ", "D", "B">>,
                      <<"D", "o", "c", "u", "m", "e", "n", "t", " ", "D", "a", "t", "a", "b", "a", "s", "e">>>>],
      [name |-> <<"R", "e", "a", "c", "t">>, default_stage |-> "PRODUCT", default_visibility |-> 80,
       examples |-> <<<<"R", "e", "a", "c", "t", ".", "j", "s">>,
                      <<"R", "e", "a", "c", "t", "J", "S">>,
                      <<"R", "e", "a", "c", "t", " ", "F", "r", "o", "n", "t", "e", "n", "d">>>>],
      [name |-> <<"V", "u", "e">>, default_stage |-> "PRODUCT", default_visibility |-> 80,
       examples |-> <<<<"V", "u", "e", ".", "j", "s">>,
                      <<"V", "u", "e", "J", "S">>>>],
      [name |-> <<"A", "W", "S">>, default_stage |-> "COMMODITY", default_visibility |-> 10,
       examples |-> <<<<"A", "m", "a", "z", "o", "n", " ", "W", "e", "b", " ", "S", "e", "r", "v", "i", "c", "e", "s">>,
                      <<"E", "C", "2">>,
                      <<"S", "3">>>>],
      [name |-> <<"K", "u", "b", "e", "r", "n", "e", "t", "e", "s">>, default_stage |-> "COMMODITY", default_visibility |-> 5,
       examples |-> <<<<"K", "8", "s">>,
                      <<"K", "8", "S">>,
                      <<"K", "u", "b", "e", "r", "n", "e", "t", "e", "s">>>>],
      [name |-> <<"T", "e", "n", "s", "o", "r", "F", "l", "o", "w">>, default_stage |-> "PRODUCT", default_visibility |-> 30,
       examples |-> <<<<"T", "e", "n", "s", "o", "r", "F", "l", "o", "w">>,
                      <<"T", "F">>>>],
      [name |-> <<"P", "y", "T", "o", "r", "c", "h">>, default_stage |-> "PRODUCT", default_visibility |-> 30,
       examples |-> <<<<"P", "y", "T", "o", "r", "c", "h">>,
                      <<"T", "o", "r", "c", "h">>>>],
      [name |-> <<"M", "L", " ", "M", "o", "d", "e", "l">>, default_stage |-> "CUSTOM", default_visibility |-> 40,
       examples |-> <<<<"M", "a", "c", "h", "i", "n", "e", " ", "L", "e", "a", "r", "n", "i", "n", "g">>,
                      <<"C", "u", "s", "t", "o", "m", " ", "M", "o", "d", "e", "l">>,
                      <<"P", "r", "o", "p", "r", "i", "e", "t", "a", "r", "y", " ", "A", "l", "g", "o", "r", "i", "t", "h", "m">>>>],
      [name |-> <<"R", "E", "S", "T", " ", "A", "P", "I">>, default_stage |-> "COMMODITY", default_visibility |-> 50,
       examples |-> <<<<"A", "P", "I">>,
                      <<"R", "E", "S", "T">>,
                      <<"H", "T", "T", "P", " ", "A", "P", "I">>>>],
      [name |-> <<"O", "A", "u", "t", "h", "2">>, default_stage |-> "COMMODITY", default_visibility |-> 20,
       examples |-> <<<<"O", "A", "u", "t", "h">>,
                      <<"O", "A", "u", "t", "h", "2">>,
                      <<"O", "p", "e", "n", "I", "D">>>>]
    >>

\* self.rules, in the order the four _initialize_*_heuristics methods append
\* them (lines 218-376): condition, stage, confidence in hundredths, priority
\* (the dataclass default, 1, for every rule).
rules ==
    <<
      [condition |-> <<"i", "s", "_", "c", "u", "s", "t", "o", "m", "e", "r", "_", "i", "n", "t", "e", "r", "f", "a", "c", "e", " ", "a", "n", "d", " ", "i", "s", "_", "w", "e", "b">>,
       stage |-> "PRODUCT", confidence |-> 85, priority |-> 1],
      [condition |-> <<"h", "a", "n", "d", "l", "e", "s", "_", "c", "o", "r", "e", "_", "b", "u", "s", "i", "n", "e", "s", "s", "_", "l", "o", "g", "i", "c">>,
       stage |-> "PRODUCT", confidence |-> 80, priority |-> 1],
      [condition |-> <<"i", "s", "_", "p", "r", "o", "p", "r", "i", "e", "t", "a", "r", "y", " ", "a", "n", "d", " ", "h", "i", "g", "h", "_", "b", "u", "s", "i", "n", "e", "s", "s", "_", "v", "a", "l", "u", "e">>,
       stage |-> "CUSTOM", confidence |-> 90, priority |-> 1],
      [condition |-> <<"i", "s", "_", "i", "n", "f", "r", "a", "s", "t", "r", "u", "c", "t", "u", "r", "e", " ", "o", "r", " ", "i", "s", "_", "h", "o", "s", "t", "i", "n", "g">>,
       stage |-> "COMMODITY", confidence |-> 90, priority |-> 1],
      [condition |-> <<"i", "s", "_", "o", "p", "e", "n", "_", "s", "o", "u", "r", "c", "e", " ", "a", "n", "d", " ", "w", "i", "d", "e", "l", "y", "_", "u", "s", "e", "d">>,
       stage |-> "COMMODITY", confidence |-> 85, priority |-> 1],
      [condition |-> <<"d", "i", "r", "e", "c", "t", "l", "y", "_", "s", "e", "r", "v", "e", "s", "_", "c", "u", "s", "t", "o", "m", "e", "r">>,
       stage |-> "PRODUCT", confidence |-> 85, priority |-> 1],
      [condition |-> <<"p", "r", "o", "v", "i", "d", "e", "s", "_", "c", "o", "m", "p", "e", "t", "i", "t", "i", "v", "e", "_", "a", "d", "v", "a", "n", "t", "a", "g", "e">>,
       stage |-> "CUSTOM", confidence |-> 90, priority |-> 1],
      [condition |-> <<"i", "s", "_", "s", "u", "p", "p", "o", "r", "t", "_", "f", "u", "n", "c", "t", "i", "o", "n", " ", "a", "n", "d", " ", "c", "a", "n", "_", "b", "e", "_", "o", "u", "t", "s", "o", "u", "r", "c", "e", "d">>,
       stage |-> "COMMODITY", confidence |-> 80, priority |-> 1],
      [condition |-> <<"i", "s", "_", "n", "e", "w", "_", "m", "a", "r", "k", "e", "t", "_", "c", "a", "t", "e", "g", "o", "r", "y">>,
       stage |-> "GENESIS", confidence |-> 85, priority |-> 1],
      [condition |-> <<"i", "s", "_", "m", "a", "r", "k", "e", "t", "_", "l", "e", "a", "d", "e", "r", " ", "a", "n", "d", " ", "d", "o", "m", "i", "n", "a", "n", "t", "_", "p", "o", "s", "i", "t", "i", "o", "n">>,
       stage |-> "PRODUCT", confidence |-> 85, priority |-> 1],
      [condition |-> <<"i", "s", "_", "d", "i", "s", "r", "u", "p", "t", "i", "v", "e", "_", "i", "n", "n", "o", "v", "a", "t", "i", "o", "n">>,
       stage |-> "GENESIS", confidence |-> 90, priority |-> 1],
      [condition |-> <<"i", "s", "_", "h", "i", "g", "h", "l", "y", "_", "c", "o", "m", "p", "e", "t", "i", "t", "i", "v", "e", " ", "a", "n", "d", " ", "l", "o", "w", "_", "m", "a", "r", "g", "i", "n">>,
       stage |-> "COMMODITY", confidence |-> 90, priority |-> 1],
      [condition |-> <<"g", "r", "o", "s", "s", "_", "m", "a", "r", "g", "i", "n", "_", "h", "i", "g", "h">>,
       stage |-> "CUSTOM", confidence |-> 85, priority |-> 1],
      [condition |-> <<"g", "r", "o", "s", "s", "_", "m", "a", "r", "g", "i", "n", "_", "m", "e", "d", "i", "u", "m">>,
       stage |-> "PRODUCT", confidence |-> 80, priority |-> 1],
      [condition |-> <<"g", "r", "o", "s", "s", "_", "m", "a", "r", "g", "i", "n", "_", "l", "o", "w">>,
       stage |-> "COMMODITY", confidence |-> 90, priority |-> 1],
      [condition |-> <<"r", "a", "p", "i", "d", "_", "r", "e", "v", "e", "n", "u", "e", "_", "g", "r", "o", "w", "t", "h">>,
       stage |-> "CUSTOM", confidence |-> 70, priority |-> 1],
      [condition |-> <<"s", "t", "a", "b", "l", "e", "_", "l", "o", "w", "_", "r", "e", "v", "e", "n", "u", "e", "_", "g", "r", "o", "w", "t", "h">>,
       stage |-> "COMMODITY", confidence |-> 80, priority |-> 1]
    >>


\* The lists of _score_visibility_heuristic (lines 427-429).
high_visibility ==
    <<<<"c", "u", "s", "t", "o", "m", "e", "r">>, <<"u", "s", "e", "r">>,
      <<"i", "n", "t", "e", "r", "f", "a", "c", "e">>, <<"p", "o", "r", "t", "a", "l">>,
      <<"d", "a", "s", "h", "b", "o", "a", "r", "d">>, <<"u", "i">>, <<"u", "x">>,
      <<"f", "r", "o", "n", "t", "e", "n", "d">>>>

medium_visibility ==
    <<<<"a", "p", "i">>, <<"s", "e", "r", "v", "i", "c", "e">>, <<"l", "a", "y", "e", "r">>,
      <<"g", "a", "t", "e", "w", "a", "y">>,
      <<"o", "r", "c", "h", "e", "s", "t", "r", "a", "t", "i", "o", "n">>>>

low_visibility ==
    <<<<"d", "a", "t", "a", "b", "a", "s", "e">>, <<"s", "t", "o", "r", "a", "g", "e">>,
      <<"i", "n", "f", "r", "a", "s", "t", "r", "u", "c", "t", "u", "r", "e">>,
      <<"h", "o", "s", "t", "i", "n", "g">>, <<"b", "a", "c", "k", "e", "n", "d">>,
      <<"c", "o", "r", "e">>, <<"e", "n", "g", "i", "n", "e">>>>

\* The context keys _score_visibility_heuristic reads (lines 439, 441).
is_customer_facing == <<"i", "s", "_", "c", "u", "s", "t", "o", "m", "e", "r", "_", "f", "a", "c", "i", "n", "g">>

is_internal == <<"i", "s", "_", "i", "n", "t", "e", "r", "n", "a", "l">>

\* context.get(key, default): a context is a function from the keys it holds
\* to TRUE (a truthy value) or FALSE (a falsy one).
ContextGet(ctx, key, default) == IF key \in DOMAIN ctx THEN ctx[key] ELSE default

\* condition.lower().replace(' ', '_') (line 449)
ConditionKey(condition) == ReplaceSpaces(Lower(condition))

\* The key of each rule of self.rules: the rules do not change after the
\* constructor, so the keys are the same at every call.
condition_keys == [i \in 1..Len(rules) |-> ConditionKey(rules[i].condition)]

\* _evaluate_rule_condition, for the rule at position i of self.rules.
EvaluateRuleCondition(i, ctx) == ContextGet(ctx, condition_keys[i], FALSE)

\* Mutant of BestRule: the first applicable rule, the list left unsorted.
BestRule_FirstApplicable(applicable_rules) ==
    IF applicable_rules = <<>> THEN Raises("IndexError") ELSE Value(applicable_rules[1])

\* The positions of a sequence of rules ordered as
\* applicable_rules.sort(key=(priority, confidence), reverse=True) orders them:
\* the sort is stable, so the first position is that of the first rule with
\* the greatest key.  applicable_rules[0] is an IndexError on an empty list.
BestRule(applicable_rules) ==
    LET Before(r, q) == r.priority > q.priority \/ (r.priority = q.priority /\ r.confidence > q.confidence)
    IN IF applicable_rules = <<>> THEN Raises("IndexError")
       ELSE Value(applicable_rules[CHOOSE i \in 1..Len(applicable_rules) :
                    /\ \A j \in 1..Len(applicable_rules) : ~Before(applicable_rules[j], applicable_rules[i])
                    /\ \A j \in 1..(i - 1) : Before(applicable_rules[i], applicable_rules[j])])

\* Mutant of ApplyHeuristics: without the default for an empty list of
\* applicable rules (lines 412-413).
ApplyHeuristics_NoDefault(name, ctx) ==
    LET Applies(i) == EvaluateRuleCondition(i, ctx)
        applicable == SelectSeq([i \in 1..Len(rules) |-> i], Applies)
        applicable_rules == [k \in 1..Len(applicable) |-> rules[applicable[k]]]
        best_rule == BestRule(applicable_rules)
    IN IF best_rule.raised THEN best_rule ELSE Value(StageToScore(best_rule.value.stage))

\* Mutant of ApplyHeuristics: without an applicable rule, a name with the
\* word "novel" in it is scored as Genesis.
ApplyHeuristics_NovelIsGenesis(name, ctx) ==
    LET Applies(i) == EvaluateRuleCondition(i, ctx)
        applicable == SelectSeq([i \in 1..Len(rules) |-> i], Applies)
        applicable_rules == [k \in 1..Len(applicable) |-> rules[applicable[k]]]
    IN IF applicable_rules = <<>>
       THEN IF IsSubstring(<<"n", "o", "v", "e", "l">>, Lower(name)) THEN Value(15) ELSE Value(50)
       ELSE LET best_rule == BestRule(applicable_rules)
            IN IF best_rule.raised THEN best_rule ELSE Value(StageToScore(best_rule.value.stage))

\* _apply_heuristics
ApplyHeuristics(name, ctx) ==
    LET Applies(i) == EvaluateRuleCondition(i, ctx)
        applicable == SelectSeq([i \in 1..Len(rules) |-> i], Applies)
        applicable_rules == [k \in 1..Len(applicable) |-> rules[applicable[k]]]
    IN IF applicable_rules = <<>> THEN Value(50)
       ELSE LET best_rule == BestRule(applicable_rules)
            IN IF best_rule.raised THEN best_rule ELSE Value(StageToScore(best_rule.value.stage))

\* any(word in name_lower for word in words)
AnyWordIn(words, name_lower) == \E k \in 1..Len(words) : IsSubstring(words[k], name_lower)

\* Mutant of ScoreVisibilityHeuristic: the mean of the values of the lists
\* with a keyword in the name (rounded down to a hundredth).
ScoreVisibilityHeuristic_MeanOfLists(name, ctx) ==
    LET name_lower == Lower(name)
        h == IF AnyWordIn(high_visibility, name_lower) THEN <<85>> ELSE <<>>
        m == IF AnyWordIn(medium_visibility, name_lower) THEN <<50>> ELSE <<>>
        l == IF AnyWordIn(low_visibility, name_lower) THEN <<20>> ELSE <<>>
        scores == h \o m \o l
        total == IF Len(scores) = 3 THEN 155
                 ELSE IF Len(scores) = 2 THEN scores[1] + scores[2]
                 ELSE IF Len(scores) = 1 THEN scores[1] ELSE 0
    IN IF scores # <<>> THEN Value(total \div Len(scores))
       ELSE IF ContextGet(ctx, is_customer_facing, FALSE) THEN Value(85)
       ELSE IF ContextGet(ctx, is_internal, FALSE) THEN Value(30)
       ELSE Value(50)

\* _score_visibility_heuristic
ScoreVisibilityHeuristic(name, ctx) ==
    LET name_lower == Lower(name)
    IN IF AnyWordIn(high_visibility, name_lower) THEN Value(85)
       ELSE IF AnyWordIn(medium_visibility, name_lower) THEN Value(50)
       ELSE IF AnyWordIn(low_visibility, name_lower) THEN Value(20)
       ELSE IF ContextGet(ctx, is_customer_facing, FALSE) THEN Value(85)
       ELSE IF ContextGet(ctx, is_internal, FALSE) THEN Value(30)
       ELSE Value(50)

RECURSIVE AnyFuzzyMatch(_, _, _)
\* self._fuzzy_match(name, pattern_name) or any(self._fuzzy_match(name, ex) ...):
\* the candidates one after the other, up to the first that matches or raises.
AnyFuzzyMatch(name, candidates, k) ==
    IF k > Len(candidates) THEN Value(FALSE)
    ELSE LET m == FuzzyMatch(name, candidates[k])
         IN IF m.raised \/ m.value THEN m ELSE AnyFuzzyMatch(name, candidates, k + 1)

\* self.patterns[name]: KeyError when name is no key.
PatternAt(name) ==
    IF \E i \in 1..Len(patterns) : patterns[i].name = name
    THEN Value(patterns[CHOOSE i \in 1..Len(patterns) : patterns[i].name = name])
    ELSE Raises("KeyError")

\* The scores of a pattern (lines 386-388, 395-397).
PatternScores(pattern) == <<StageToScore(pattern.default_stage), pattern.default_visibility>>

RECURSIVE FuzzyPatternLoop(_, _)
\* The for loop of lines 391-397 from pattern i on: the scores of the first
\* pattern that matches, Value(<<>>) when the loop ends without a match.
FuzzyPatternLoop(name, i) ==
    IF i > Len(patterns) THEN Value(<<>>)
    ELSE LET m == AnyFuzzyMatch(name, <<patterns[i].name>> \o patterns[i].examples, 1)
         IN IF m.raised THEN m
            ELSE IF m.value THEN Value(PatternScores(patterns[i]))
            ELSE FuzzyPatternLoop(name, i + 1)

\* The tier of lines 399-403: rules for the evolution, keywords and context
\* for the visibility.
HeuristicScores(name, ctx) ==
    LET evolution_score == ApplyHeuristics(name, ctx)
        visibility_score == ScoreVisibilityHeuristic(name, ctx)
    IN IF evolution_score.raised THEN evolution_score
       ELSE IF visibility_score.raised THEN visibility_score
       ELSE Value(<<evolution_score.value, visibility_score.value>>)

\* score_component, lines 384-397: the scores of the pattern that is the name,
\* if none of the first pattern that matches it, Value(<<>>) if there is none.
PatternTiers(name) ==
    IF \E i \in 1..Len(patterns) : patterns[i].name = name
    THEN LET pattern == PatternAt(name)
         IN IF pattern.raised THEN pattern ELSE Value(PatternScores(pattern.value))
    ELSE FuzzyPatternLoop(name, 1)

\* score_component(name, context)
ScoreComponentResult(name, ctx) ==
    LET matched == PatternTiers(name)
    IN IF matched.raised \/ matched.value # <<>> THEN matched
       ELSE HeuristicScores(name, ctx)

(***************************************************************************)
(* Inputs.  Component names are unique (spec, data model) and the code     *)
(* only compares them, so the i-th component is named NameSeq[i]; an edge  *)
(* may name any node of Nodes, a supplied component or not.                *)
(***************************************************************************)
MaxComps == 2

MaxDeps == 2

MaxChain == 3

NameSeq == <<"A", "B", "C", "D", "E", "F">>

Nodes == {"A", "B", "C"}

\* One value in every band the passes tell apart, the band edges included.
EvolutionGrid == {20, 25, 30, 40, 45, 55, 70, 80, 85, 90}

VisibilityGrid == {10, 40, 50, 70}

\* (evolution, visibility) of the components of a list of several.
Profiles == {<<20, 70>>, <<20, 40>>, <<40, 30>>, <<55, 70>>, <<90, 70>>, <<90, 10>>}

Component(i, p) == [name |-> NameSeq[i], evolution |-> p[1], visibility |-> p[2]]

ComponentLists(n) == {[i \in 1..n |-> Component(i, ps[i])] : ps \in [1..n -> Profiles]}

\* The chain NameSeq[1] -> NameSeq[2] -> ... of k edges.
Chain(k) == [i \in 1..k |-> <<NameSeq[i], NameSeq[i + 1]>>]

\* k copies of one edge.
Repeated(e, k) == [i \in 1..k |-> e]

\* Maps of one component over the whole grid, and of up to MaxComps components
\* over Profiles, with every edge list of up to MaxDeps edges over Nodes.
GeneralInputs ==
    ({<<Component(1, p)>> : p \in EvolutionGrid \X VisibilityGrid}
        \cup UNION {ComponentLists(n) : n \in 0..MaxComps})
    \X SeqsUpTo(Nodes \X Nodes, MaxDeps)

\* Linear chains of up to MaxChain edges whose nodes are all supplied, and the
\* same edge given up to MaxChain times.
ShapedInputs ==
    UNION {ComponentLists(k + 1) \X {Chain(k)} : k \in 1..MaxChain}
    \cup UNION {ComponentLists(1) \X {Repeated(e, k) : e \in {"A", "B"} \X {"A"}} : k \in 1..MaxChain}

Inputs == GeneralInputs \cup ShapedInputs

(***************************************************************************)
(* Spec: one call of analyze on one input.                                 *)
(***************************************************************************)
NoAnalysis == MapAnalysis(0, 0)

IdleAnalyzer ==
    /\ insightsBy = [p \in Passes |-> <<>>]
    /\ done = {}
    /\ recsSaw = {}
    /\ stack = <<>>
    /\ ret = <<>>
    /\ paths = <<>>
    /\ root = 0
    /\ calls = 0

IdleScorer ==
    /\ sname = <<>>
    /\ context = <<>>
    /\ result = <<0, 0>>

IdleMatcher ==
    /\ textA = <<>>
    /\ textB = <<>>

IdleWorkflow ==
    /\ config = <<>>
    /\ file = ""
    /\ steps = <<>>
    /\ locals = <<>>
    /\ outcome = <<>>

Init ==
    /\ \E in \in Inputs : components = in[1] /\ dependencies = in[2]
    /\ pc = "ready"
    /\ analysis = NoAnalysis
    /\ IdleAnalyzer
    /\ IdleScorer
    /\ IdleMatcher
    /\ IdleWorkflow

\* analyze(components, dependencies): returns the MapAnalysis, or raises what a
\* pass raised (no partially filled analysis is handed back).
Analyze ==
    /\ pc = "ready"
    /\ LET r == AnalyzeResult(components, dependencies)
       IN /\ pc' = IF r.raised THEN "raised" ELSE "done"
          /\ analysis' = IF r.raised THEN NoAnalysis ELSE r.analysis
    /\ UNCHANGED <<components, dependencies, insightsBy, done, recsSaw, stack, ret, paths, root, calls, sname, context, result, textA, textB, config, file, steps, locals, outcome>>

Next == Analyze

Spec == Init /\ [][Next]_vars

(***************************************************************************)
(* What the claims about analyze speak of.                                 *)
(***************************************************************************)
ComponentNames == {components[i].name : i \in 1..Len(components)}

AllNames == Range(NameSeq)

\* How many entries of sequence s equal x.
Count(s, x) == Cardinality({i \in 1..Len(s) : s[i] = x})

\* The insights of a type that name a component.
InsightsOf(a, type, cname) ==
    {i \in 1..Len(a.insights) : a.insights[i].type = type /\ a.insights[i].component = cname}

\* Every node name found in an output list of a MapAnalysis.
OutputNames(a) ==
    Range(a.critical_path)
    \cup Range(a.competitive_advantages)
    \cup (AllNames \cap UNION {Range(a.vulnerabilities[i]) : i \in 1..Len(a.vulnerabilities)})
    \cup (AllNames \cap UNION {Range(a.opportunities[i]) : i \in 1..Len(a.opportunities)})
    \cup (AllNames \cap UNION {Range(a.threats[i]) : i \in 1..Len(a.threats)})
    \cup {a.evolution_trajectory[i][1] : i \in 1..Len(a.evolution_trajectory)}
    \cup {a.insights[i].component : i \in 1..Len(a.insights)}
    \cup (AllNames \cap UNION {Range(a.insights[i].about) : i \in 1..Len(a.insights)})

HasDanglingEdge ==
    \E i \in 1..Len(dependencies) :
        dependencies[i][1] \notin ComponentNames \/ dependencies[i][2] \notin ComponentNames

\* C2: for a dependency list with an edge naming a node that is no supplied
\* component, analyze completes without raising and no output list of the
\* MapAnalysis holds a name that is not a supplied component's.
C2_DanglingEdgeTolerance ==
    (pc # "ready" /\ HasDanglingEdge) =>
        (pc = "done" /\ OutputNames(analysis) \subseteq ComponentNames)

\* C3: for a non-empty list of well-formed components and any list of
\* (source, target) pairs, analyze returns a MapAnalysis: it never raises.
C3_NeverRaises == (components # <<>>) => (pc # "raised")

\* The distinct other components with an edge to cname.
DistinctDependents(cname) ==
    {s \in ComponentNames \ {cname} :
        \E i \in 1..Len(dependencies) : dependencies[i] = <<s, cname>>}

\* C4: the MapAnalysis holds exactly one bottleneck insight for a component
\* with at least 3 distinct reverse-dependents and evolution < 0.7, and none
\* for any other component.
C4_BottleneckIffThreeDistinctDependents ==
    (pc = "done") =>
        \A i \in 1..Len(components) :
            Cardinality(InsightsOf(analysis, "bottleneck", components[i].name))
                = IF Cardinality(DistinctDependents(components[i].name)) >= 3
                     /\ components[i].evolution < 70
                  THEN 1 ELSE 0

\* The out-neighbours of node u, and the place of the first edge u -> v in the
\* dependency list (neighbours are visited in edge-list order).
Successors(u) == {dependencies[i][2] : i \in {j \in 1..Len(dependencies) : dependencies[j][1] = u}}

EdgeRank(u, v) ==
    CHOOSE i \in 1..Len(dependencies) :
        /\ dependencies[i] = <<u, v>>
        /\ \A j \in 1..(i - 1) : dependencies[j] # <<u, v>>

\* The paths a depth-first search along out-edges finds from the end of w: w
\* and its extensions, a branch ending at a node already on the path.
RECURSIVE PathsFrom(_)
PathsFrom(w) ==
    {w} \cup
    IF \E i \in 1..(Len(w) - 1) : w[i] = w[Len(w)] THEN {}
    ELSE UNION {PathsFrom(Append(w, v)) : v \in Successors(w[Len(w)])}

MaxLen(W) == CHOOSE n \in {Len(w) : w \in W} : \A w \in W : Len(w) <= n

\* Of two different paths of one root and one length, w1 is found first when,
\* where they part, w1 takes the neighbour listed earlier.
FoundBefore(w1, w2) ==
    LET i == CHOOSE k \in 1..Len(w1) : w1[k] # w2[k] /\ \A j \in 1..(k - 1) : w1[j] = w2[j]
    IN EdgeRank(w1[i - 1], w1[i]) < EdgeRank(w2[i - 1], w2[i])

GenesisRoots == {i \in 1..Len(components) : components[i].evolution < 25}

\* The longest path over all genesis roots, the first found among equals:
\* the first root (in list order) that reaches the greatest length, and from
\* it the path found before every other path of that length.
IsFirstLongestPath(cp) ==
    LET best == [i \in GenesisRoots |-> MaxLen(PathsFrom(<<components[i].name>>))]
        r == CHOOSE i \in GenesisRoots :
                /\ \A j \in GenesisRoots : best[j] <= best[i]
                /\ \A j \in GenesisRoots : j < i => best[j] < best[i]
        W == {w \in PathsFrom(<<components[r].name>>) : Len(w) = best[r]}
    IN cp \in W /\ \A w \in W \ {cp} : FoundBefore(cp, w)

\* C5: critical_path of the MapAnalysis is the longest path depth-first
\* search finds along out-edges from the roots with evolution < 0.25, the first
\* found among paths of equal length, and is empty when there is no such root;
\* for the chain A -> B -> C -> D with only A genesis it is [A, B, C, D].
C5_CriticalPathIsFirstLongest ==
    (pc = "done") =>
        /\ IF GenesisRoots = {} THEN analysis.critical_path = <<>>
           ELSE IsFirstLongestPath(analysis.critical_path)
        /\ (dependencies = Chain(3) /\ Len(components) = 4 /\ GenesisRoots = {1})
              => analysis.critical_path = <<"A", "B", "C", "D">>

C5_Witness ==
    /\ pc = "done"
    /\ dependencies = Chain(3) /\ Len(components) = 4 /\ GenesisRoots = {1}
    /\ analysis.critical_path = <<"A", "B", "C", "D">>

\* C7: with no components, analyze returns a MapAnalysis with both totals
\* zero and every list empty, whatever the dependency list.
C7_EmptyMapZeroTotals ==
    (components = <<>> /\ pc # "ready") => (pc = "done" /\ analysis = MapAnalysis(0, 0))

\* What analyze gives with no components: it returns, every list is empty,
\* and total_dependencies is the number of dependency entries supplied, none
\* of which names a component.
EmptyMapCountsDependencies ==
    (components = <<>> /\ pc # "ready") =>
        (pc = "done" /\ analysis = MapAnalysis(0, Len(dependencies)))

IsCompetitiveAdvantage(comp) ==
    \/ (25 <= comp.evolution /\ comp.evolution <= 55 /\ comp.visibility >= 40)
    \/ (comp.evolution < 25 /\ comp.visibility >= 50)

SinglePointReports(cname) ==
    {i \in InsightsOf(analysis, "vulnerability", cname) :
        analysis.insights[i].title = "Single Point of Failure"}

\* C17: a single point of failure is reported for a component exactly when
\* its evolution is between 0.25 and 0.55 and its own out-edges have exactly
\* one distinct target: the decision reads neither its visibility nor the
\* out-edges of a component processed before it.
C17_SinglePointOfFailure ==
    (pc = "done") =>
        \A i \in 1..Len(components) :
            (SinglePointReports(components[i].name) # {})
                <=> /\ 25 <= components[i].evolution /\ components[i].evolution <= 55
                    /\ Cardinality(Successors(components[i].name)) = 1

\* The infrastructure-risk insights that name cname and are about target.
InfrastructureReports(cname, target) ==
    {i \in InsightsOf(analysis, "vulnerability", cname) :
        /\ analysis.insights[i].title = "Infrastructure Risk"
        /\ analysis.insights[i].about = <<target>>}

\* The supplied component of a name.
ComponentNamed(cname) == components[CHOOSE i \in 1..Len(components) : components[i].name = cname]

\* An edge from a supplied component of visibility >= 0.7 to a supplied
\* component of evolution >= 0.8.
IsInfrastructureRisk(source, target) ==
    /\ source \in ComponentNames /\ target \in ComponentNames
    /\ ComponentNamed(source).visibility >= 70
    /\ ComponentNamed(target).evolution >= 80

\* C18: every entry A -> B of the dependency list with A and B supplied
\* components, A.visibility >= 0.7 and B.evolution >= 0.8 gives exactly one
\* infrastructure-risk insight naming A (about B) and one entry "A -> B" of
\* vulnerabilities; an edge failing one of the conditions gives none.
C18_InfrastructureRiskPerEdge ==
    (pc = "done") =>
        \A source \in Nodes, target \in Nodes :
            LET expected == IF IsInfrastructureRisk(source, target)
                            THEN Count(dependencies, <<source, target>>) ELSE 0
            IN /\ Cardinality(InfrastructureReports(source, target)) = expected
               /\ Count(analysis.vulnerabilities, <<source, " -> ", target>>) = expected

\* An edge that meets the conditions and one that does not, analysed.
C18_Witness ==
    /\ pc = "done"
    /\ dependencies = <<<<"A", "B">>, <<"B", "A">>>>
    /\ IsInfrastructureRisk("A", "B") /\ ~IsInfrastructureRisk("B", "A")
    /\ analysis.vulnerabilities = <<<<"A", " -> ", "B">>>>

\* The stage after each stage short of Commodity, as the claim gives it.
NextStageOf == [Genesis |-> "Product", Custom |-> "Product", Product |-> "Commodity"]

\* C19: every component with evolution < 0.8 gets exactly one
\* evolution_readiness insight and one evolution_trajectory entry
\* "Current -> Next", Genesis and Custom heading for Product and Product for
\* Commodity; a component with evolution >= 0.8 gets neither.
C19_EvolutionReadiness ==
    (pc = "done") =>
        \A i \in 1..Len(components) :
            LET comp == components[i]
                current == StageLabel(comp.evolution)
                readiness == InsightsOf(analysis, "evolution_readiness", comp.name)
                entries == {k \in 1..Len(analysis.evolution_trajectory) :
                               analysis.evolution_trajectory[k][1] = comp.name}
            IN IF comp.evolution < 80
               THEN /\ Cardinality(readiness) = 1
                    /\ \A k \in readiness : analysis.insights[k].about = <<current, NextStageOf[current]>>
                    /\ Cardinality(entries) = 1
                    /\ \A k \in entries :
                         analysis.evolution_trajectory[k][2] = <<current, " -> ", NextStageOf[current]>>
               ELSE readiness = {} /\ entries = {}

\* A Genesis component and a Commodity component, analysed.
C19_Witness ==
    /\ pc = "done"
    /\ Len(components) = 2
    /\ components[1].evolution = 20 /\ components[2].evolution = 90
    /\ analysis.evolution_trajectory = <<<<"A", <<"Genesis", " -> ", "Product">>>>>>

\* The supply-chain-resilience recommendation is among the recommendations.
ResilienceRecommended == <<"SUPPLY CHAIN RESILIENCE">> \in Range(analysis.strategic_recommendations)

RecsReads == {"vulnerabilities", "readiness"}

SmallNodes == {"A", "B"}

\* SpecPasses visits every subset of the eight passes for each input, so its
\* inputs are one component and one edge smaller than those of Spec.
SmallInputs ==
    (UNION {ComponentLists(n) : n \in 0..(MaxComps - 1)})
        \X SeqsUpTo(SmallNodes \X SmallNodes, MaxDeps - 1)

InitPasses ==
    /\ \E inp \in SmallInputs : components = inp[1] /\ dependencies = inp[2]
    /\ pc = "passes"
    /\ analysis = MapAnalysis(Len(components), Len(dependencies))
    /\ insightsBy = [p \in Passes |-> <<>>]
    /\ done = {}
    /\ recsSaw = {}
    /\ stack = <<>> /\ ret = <<>> /\ paths = <<>> /\ root = 0 /\ calls = 0
    /\ IdleScorer
    /\ IdleMatcher
    /\ IdleWorkflow

\* One pass, run on the analysis as the passes before it left it.
RunOnePass(p) ==
    /\ pc = "passes"
    /\ p \notin done
    /\ LET r == RunPass(p, components, dependencies, analysis)
       IN IF r.raised
          THEN /\ pc' = "raised"
               /\ analysis' = NoAnalysis
               /\ insightsBy' = [q \in Passes |-> <<>>]
               /\ done' = {}
               /\ recsSaw' = {}
          ELSE /\ pc' = pc
               /\ analysis' = [r.analysis EXCEPT !.insights = <<>>]
               /\ insightsBy' = [insightsBy EXCEPT ![p] = r.analysis.insights]
               /\ done' = done \cup {p}
               /\ recsSaw' = IF p = "recommendations" THEN done \cap RecsReads ELSE recsSaw
    /\ UNCHANGED <<components, dependencies, stack, ret, paths, root, calls, sname, context, result, textA, textB, config, file, steps, locals, outcome>>

StrengthsPass == RunOnePass("strengths")

VulnerabilitiesPass == RunOnePass("vulnerabilities")

OpportunitiesPass == RunOnePass("opportunities")

ThreatsPass == RunOnePass("threats")

BottlenecksPass == RunOnePass("bottlenecks")

ReadinessPass == RunOnePass("readiness")

CriticalPathPass == RunOnePass("critical_path")

RecommendationsPass == RunOnePass("recommendations")

\* return analysis, once every pass has run.
ReturnAnalysis ==
    /\ pc = "passes"
    /\ done = Passes
    /\ pc' = "done"
    /\ UNCHANGED <<components, dependencies, analysis, insightsBy, done, recsSaw, stack, ret, paths, root, calls, sname, context, result, textA, textB, config, file, steps, locals, outcome>>

NextPasses ==
    \/ StrengthsPass
    \/ VulnerabilitiesPass
    \/ OpportunitiesPass
    \/ ThreatsPass
    \/ BottlenecksPass
    \/ ReadinessPass
    \/ CriticalPathPass
    \/ RecommendationsPass
    \/ ReturnAnalysis

SpecPasses == InitPasses /\ [][NextPasses]_vars

\* The content of a MapAnalysis, the order of the flat insight list left out:
\* the insights as a set of (insight, occurrences), every other field as it is.
ContentOf(a, insights) ==
    [a EXCEPT !.insights = {<<x, Count(insights, x)>> : x \in Range(insights)}]

\* The flat insight list, the passes' insights in the order of analyze.
RECURSIVE FlatInsights(_, _)
FlatInsights(by, k) ==
    IF k > Len(PassOrder) THEN <<>> ELSE by[PassOrder[k]] \o FlatInsights(by, k + 1)

\* What analyze itself, with its passes in the order of the code, returns.
SequentialContent ==
    LET r == AnalyzeResult(components, dependencies)
    IN ContentOf(r.analysis, r.analysis.insights)

\* C6 as claimed: whatever the order in which the passes ran, the MapAnalysis
\* has the content analyze gives with the passes in the order of the code:
\* the same derived lists, the same set of insights, the same recommendations.
C6_AnyOrderSameContent ==
    (pc = "done") => ContentOf(analysis, FlatInsights(insightsBy, 1)) = SequentialContent

\* C6 as amended: the content is the same for every order in which
\* recommendations runs after the vulnerabilities and readiness passes, whose
\* lists it reads.
C6_SameContentWhenRecsRunAfterItsInputs ==
    (pc = "done" /\ recsSaw = RecsReads) =>
        ContentOf(analysis, FlatInsights(insightsBy, 1)) = SequentialContent

\* Recommendations ran after the two passes it reads and before every other
\* pass would be visible only in `done`; the witness asks for a run in which
\* the supply-chain recommendation, the one that reads another pass's output,
\* was made.
C6_Witness ==
    /\ pc = "done" /\ recsSaw = RecsReads
    /\ \E k \in 1..Len(analysis.strategic_recommendations) :
          analysis.strategic_recommendations[k] = <<"SUPPLY CHAIN RESILIENCE">>
    /\ Len(components) = 1 /\ Len(dependencies) = 1

(***************************************************************************)
(* SpecDfs: analyze with _identify_critical_path and the recursion of      *)
(* _dfs_longest_path unfolded into steps.  `stack` is the call stack of    *)
(* _dfs_longest_path, one frame per active call (its start, its own copy   *)
(* of visited, the position k of its for loop, its longest); `ret` is the  *)
(* value the call that just ended returned (<<>> for none: a call never    *)
(* returns an empty path); `paths` is longest_paths, `root` the position   *)
(* of the for loop over components, `calls` the calls made so far.         *)
(***************************************************************************)
DfsInputs ==
    (UNION {ComponentLists(n) : n \in 0..MaxComps})
        \X SeqsUpTo(SmallNodes \X SmallNodes, MaxDeps)

dep_graph == BuildDependencyGraph(dependencies)

Frame(start, visited) == [start |-> start, visited |-> visited, k |-> 0, longest |-> <<>>]

Top == stack[Len(stack)]

Pop == SubSeq(stack, 1, Len(stack) - 1)

InitDfs ==
    /\ \E inp \in DfsInputs : components = inp[1] /\ dependencies = inp[2]
    /\ pc = "ready"
    /\ analysis = NoAnalysis
    /\ IdleAnalyzer
    /\ IdleScorer
    /\ IdleMatcher
    /\ IdleWorkflow

\* Lines 62-83: the MapAnalysis and the six passes before the critical path.
EarlierPasses ==
    /\ pc = "ready"
    /\ LET r == RunPasses(SubSeq(PassOrder, 1, 6), 1, components, dependencies,
                          MapAnalysis(Len(components), Len(dependencies)))
       IN IF r.raised
          THEN pc' = "raised" /\ analysis' = NoAnalysis /\ root' = root
          ELSE pc' = "roots" /\ analysis' = r.analysis /\ root' = 1
    /\ UNCHANGED <<components, dependencies, insightsBy, done, recsSaw, stack, ret, paths, calls, sname, context, result, textA, textB, config, file, steps, locals, outcome>>

\* for comp in components, a component that is not Genesis: nothing to do.
SkipRoot ==
    /\ pc = "roots" /\ root <= Len(components)
    /\ components[root].evolution >= 25
    /\ root' = root + 1
    /\ UNCHANGED <<components, dependencies, pc, analysis, insightsBy, done, recsSaw, stack, ret, paths, calls, sname, context, result, textA, textB, config, file, steps, locals, outcome>>

\* for comp in components, a Genesis component: the call of line 351, with
\* visited = None, that is the empty set.
CallRoot ==
    /\ pc = "roots" /\ root <= Len(components)
    /\ components[root].evolution < 25
    /\ pc' = "dfs"
    /\ stack' = <<Frame(components[root].name, {})>>
    /\ calls' = calls + 1
    /\ UNCHANGED <<components, dependencies, analysis, insightsBy, done, recsSaw, ret, paths, root, sname, context, result, textA, textB, config, file, steps, locals, outcome>>

\* Lines 433-441 of a call that goes no further: start is in visited, or has no
\* outgoing edge; it returns [start].
DfsBase ==
    /\ pc = "dfs" /\ stack # <<>> /\ Top.k = 0
    /\ Top.start \in Top.visited \/ GraphGet(dep_graph, Top.start) = <<>>
    /\ ret' = <<Top.start>>
    /\ stack' = Pop
    /\ UNCHANGED <<components, dependencies, pc, analysis, insightsBy, done, recsSaw, paths, root, calls, sname, context, result, textA, textB, config, file, steps, locals, outcome>>

\* Lines 433-443 of a call that goes on: visited is copied, start added,
\* longest = [start], and the for loop starts.
DfsDescend ==
    /\ pc = "dfs" /\ stack # <<>> /\ Top.k = 0
    /\ Top.start \notin Top.visited /\ GraphGet(dep_graph, Top.start) # <<>>
    /\ stack' = [stack EXCEPT ![Len(stack)] =
                    [@ EXCEPT !.visited = @ \cup {Top.start}, !.k = 1, !.longest = <<Top.start>>]]
    /\ UNCHANGED <<components, dependencies, pc, analysis, insightsBy, done, recsSaw, ret, paths, root, calls, sname, context, result, textA, textB, config, file, steps, locals, outcome>>

\* Line 445: the recursive call for the neighbour at position k.
DfsCall ==
    /\ pc = "dfs" /\ stack # <<>> /\ Top.k >= 1 /\ ret = <<>>
    /\ Top.k <= Len(dep_graph[Top.start])
    /\ stack' = Append(stack, Frame(dep_graph[Top.start][Top.k], Top.visited))
    /\ calls' = calls + 1
    /\ UNCHANGED <<components, dependencies, pc, analysis, insightsBy, done, recsSaw, ret, paths, root, sname, context, result, textA, textB, config, file, steps, locals, outcome>>

\* Lines 446-447: the call returned `ret`; keep it if strictly longer.
DfsResume ==
    /\ pc = "dfs" /\ stack # <<>> /\ Top.k >= 1 /\ ret # <<>>
    /\ stack' = [stack EXCEPT ![Len(stack)] =
                    [@ EXCEPT !.k = @ + 1,
                              !.longest = IF Len(ret) + 1 > Len(@) THEN <<Top.start>> \o ret ELSE @]]
    /\ ret' = <<>>
    /\ UNCHANGED <<components, dependencies, pc, analysis, insightsBy, done, recsSaw, paths, root, calls, sname, context, result, textA, textB, config, file, steps, locals, outcome>>

\* Line 448: the for loop is over, return longest.
DfsReturn ==
    /\ pc = "dfs" /\ stack # <<>> /\ Top.k >= 1 /\ ret = <<>>
    /\ Top.k > Len(dep_graph[Top.start])
    /\ ret' = Top.longest
    /\ stack' = Pop
    /\ UNCHANGED <<components, dependencies, pc, analysis, insightsBy, done, recsSaw, paths, root, calls, sname, context, result, textA, textB, config, file, steps, locals, outcome>>

\* Lines 352-353: the call of line 351 returned; longest_paths.append(path).
AppendPath ==
    /\ pc = "dfs" /\ stack = <<>> /\ ret # <<>>
    /\ paths' = Append(paths, ret)
    /\ ret' = <<>>
    /\ root' = root + 1
    /\ pc' = "roots"
    /\ UNCHANGED <<components, dependencies, analysis, insightsBy, done, recsSaw, stack, calls, sname, context, result, textA, textB, config, file, steps, locals, outcome>>

\* Lines 355-357 and 89-91: the first of the longest paths becomes
\* critical_path, the recommendations are made and analyze returns.
FinishAnalyze ==
    /\ pc = "roots" /\ root > Len(components)
    /\ LET a == IF paths # <<>> THEN [analysis EXCEPT !.critical_path = FirstLongest(paths)]
                ELSE analysis
           r == GenerateRecommendations(components, dependencies, a)
       IN IF r.raised
          THEN pc' = "raised" /\ analysis' = NoAnalysis
          ELSE pc' = "done" /\ analysis' = r.analysis
    /\ UNCHANGED <<components, dependencies, insightsBy, done, recsSaw, stack, ret, paths, root, calls, sname, context, result, textA, textB, config, file, steps, locals, outcome>>

NextDfs ==
    \/ EarlierPasses
    \/ SkipRoot
    \/ CallRoot
    \/ DfsBase
    \/ DfsDescend
    \/ DfsCall
    \/ DfsResume
    \/ DfsReturn
    \/ AppendPath
    \/ FinishAnalyze

SpecDfs == InitDfs /\ [][NextDfs]_vars

\* The steps are those of one thread: nothing but the program's own next
\* step can stop it, so every enabled step is eventually taken.
FairSpecDfs == SpecDfs /\ WF_vars(NextDfs)

\* The names an edge mentions.
EdgeNames == {dependencies[i][1] : i \in 1..Len(dependencies)} \cup {dependencies[i][2] : i \in 1..Len(dependencies)}

RECURSIVE WalksUpTo(_, _)
\* The number of sequences of at most n edges, an upper bound of the walks a
\* root's DFS can follow.
WalksUpTo(e, n) == IF n = 0 THEN 1 ELSE 1 + e * WalksUpTo(e, n - 1)

\* The recursion is bounded by the input: a call's visited set grows by one
\* name per level and holds only names with an outgoing edge, so there are
\* never more active calls than names the edges mention, plus one; and each
\* call is one walk from its root.
DfsRecursionBounded ==
    /\ Len(stack) <= Cardinality(EdgeNames) + 1
    /\ \A i \in 1..Len(stack) : stack[i].visited \subseteq EdgeNames
    /\ calls <= Len(components) * WalksUpTo(Len(dependencies), Cardinality(EdgeNames) + 1)

\* The steps end: analyze returns or raises.  Checked under FairSpecDfs.
DfsTerminates == <>(pc \in {"done", "raised"})

\* The unfolded DFS gives what the recursive definition gives.
DfsAgreesWithAnalyze ==
    LET r == AnalyzeResult(components, dependencies)
    IN /\ (pc = "done") => (~r.raised /\ analysis = r.analysis)
       /\ (pc = "raised") => r.raised

\* C1: for every finite component and dependency list, cycles and self-loops
\* included, analyze terminates by returning a MapAnalysis: the recursion of
\* _dfs_longest_path stays bounded, and when no step is left analyze has
\* returned.
C1_AnalyzeTerminatesReturning ==
    /\ DfsRecursionBounded
    /\ (~ENABLED NextDfs) => (pc = "done")

(***************************************************************************)
(* SpecScore: one call score_component(sname, context), in two steps: the  *)
(* pattern tiers, which read the name only, then the heuristics.           *)
(***************************************************************************)
MaxNameLen == 2

MaxContextKeys == 2

\* The characters of the short names: letters of both cases and a blank.
Alphabet == {"a", "T", "u", "i", " "}

\* Names of every tier: a pattern key, a key in another case with blanks
\* around it, a name one edit away from a ten-letter key, names with a
\* visibility keyword of each list, a name nothing knows, a name with the
\* character whose lower case is two characters.
ChosenNames ==
    {<<"R", "e", "a", "c", "t">>,
     <<" ", "R", "e", "a", "c", "t", " ">>,
     <<"K", "u", "b", "e", "r", "n", "e", "t", "e", "z">>,
     <<"p", "o", "r", "t", "a", "l">>,
     <<"G", "a", "t", "e", "w", "a", "y">>,
     <<"s", "t", "o", "r", "a", "g", "e">>,
     <<"Z", "e", "d">>,
     <<"I-dot", "T", "F">>}

Names == SeqsUpTo(Alphabet, MaxNameLen) \cup ChosenNames

\* Context keys: the keys of four rules, the condition of the first rule as
\* the rule table spells it (with blanks), and the two visibility keys.
ContextKeys ==
    {<<"i", "s", "_", "c", "u", "s", "t", "o", "m", "e", "r", "_", "i", "n", "t", "e", "r", "f", "a", "c", "e", "_", "a", "n", "d", "_", "i", "s", "_", "w", "e", "b">>,
     <<"i", "s", "_", "c", "u", "s", "t", "o", "m", "e", "r", "_", "i", "n", "t", "e", "r", "f", "a", "c", "e", " ", "a", "n", "d", " ", "i", "s", "_", "w", "e", "b">>,
     <<"i", "s", "_", "p", "r", "o", "p", "r", "i", "e", "t", "a", "r", "y", "_", "a", "n", "d", "_", "h", "i", "g", "h", "_", "b", "u", "s", "i", "n", "e", "s", "s", "_", "v", "a", "l", "u", "e">>,
     <<"i", "s", "_", "d", "i", "s", "r", "u", "p", "t", "i", "v", "e", "_", "i", "n", "n", "o", "v", "a", "t", "i", "o", "n">>,
     <<"g", "r", "o", "s", "s", "_", "m", "a", "r", "g", "i", "n", "_", "l", "o", "w">>,
     is_customer_facing, is_internal}

Contexts ==
    UNION {[D -> BOOLEAN] : D \in {K \in SUBSET ContextKeys : Cardinality(K) <= MaxContextKeys}}

InitScore ==
    /\ sname \in Names
    /\ context = <<>>
    /\ result = <<0, 0>>
    /\ pc = "ready"
    /\ components = <<>> /\ dependencies = <<>>
    /\ analysis = NoAnalysis
    /\ IdleAnalyzer
    /\ IdleMatcher
    /\ IdleWorkflow

\* score_component, lines 384-397: the pattern tiers.  They return the scores
\* of a pattern, or leave the name to the heuristics.
MatchPatterns ==
    /\ pc = "ready"
    /\ LET matched == PatternTiers(sname)
       IN IF matched.raised THEN pc' = "raised" /\ result' = <<0, 0>>
          ELSE IF matched.value # <<>> THEN pc' = "scored" /\ result' = matched.value
          ELSE pc' = "heuristics" /\ result' = result
    /\ UNCHANGED <<components, dependencies, analysis, insightsBy, done, recsSaw, stack, ret, paths, root, calls, sname, context, textA, textB, config, file, steps, locals, outcome>>

\* score_component, lines 399-403: the rules, keywords and defaults.  The
\* context is first read here, so it is drawn here.
ScoreHeuristics ==
    /\ pc = "heuristics"
    /\ \E ctx \in Contexts :
         LET r == HeuristicScores(sname, ctx)
         IN /\ context' = ctx
            /\ IF r.raised
               THEN pc' = "raised" /\ result' = <<0, 0>>
               ELSE pc' = "scored" /\ result' = r.value
    /\ UNCHANGED <<components, dependencies, analysis, insightsBy, done, recsSaw, stack, ret, paths, root, calls, sname, textA, textB, config, file, steps, locals, outcome>>

NextScore ==
    \/ MatchPatterns
    \/ ScoreHeuristics

SpecScore == InitScore /\ [][NextScore]_vars

\* C9: both scores score_component returns are between 0 and 1 (0 and 100
\* hundredths), for every name, the empty string included, and every
\* context, whichever tier produced them.
C9_ScoresInUnitRange ==
    (pc = "scored") =>
        /\ 0 <= result[1] /\ result[1] <= 100
        /\ 0 <= result[2] /\ result[2] <= 100

\* The empty name has been scored (by the first pattern, which every empty
\* string matches), and a name no pattern matches has been scored by a rule
\* and by the context.
C9_Witness ==
    /\ pc = "scored"
    /\ \/ sname = <<>> /\ result = <<90, 15>>
       \/ sname = <<"Z", "e", "d">> /\ result = <<15, 85>>

\* C10: score_component is total: for every name and every context the chain
\* exact pattern, fuzzy pattern, rules, keywords, default never raises, and
\* the call is at one of its two steps or has returned a pair of scores.
C10_ScoreComponentTotal ==
    /\ pc # "raised"
    /\ pc \in {"ready", "heuristics", "scored"}
    /\ (pc = "scored") => (Len(result) = 2 /\ result[1] \in Nat /\ result[2] \in Nat)

\* A name unknown to the knowledge base, scored with an empty context by the
\* defaults at the end of the chain.
C10_Witness ==
    /\ pc = "scored"
    /\ sname = <<"Z", "e", "d">> /\ context = <<>>
    /\ result = <<50, 50>>

(***************************************************************************)
(* SpecCall: one call score_component(sname, context) as a single step,    *)
(* the name and the context both chosen before the call.                   *)
(***************************************************************************)
\* Names of the call: two pattern keys, three aliases, a name one edit away
\* from a key, a name with a visibility keyword, a name with keywords of two
\* visibility lists, two names no pattern matches.
CallNames ==
    {<<"R", "e", "a", "c", "t">>,
     <<"A", "W", "S">>,
     <<"T", "F">>,
     <<"M", "a", "r", "i", "a", "D", "B">>,
     <<"C", "u", "s", "t", "o", "m", " ", "M", "o", "d", "e", "l">>,
     <<"K", "u", "b", "e", "r", "n", "e", "t", "e", "z">>,
     <<"p", "o", "r", "t", "a", "l">>,
     <<"c", "o", "r", "e", " ", "p", "o", "r", "t", "a", "l">>,
     <<"Z", "e", "d">>,
     <<"T", "o", "t", "a", "l", "l", "y", " ", "N", "o", "v", "e", "l", " ", "W", "i", "d", "g", "e", "t">>}

\* Context keys of the call: the keys of the rules gross_margin_low
\* (Commodity, confidence 0.9) and rapid_revenue_growth (Custom, confidence
\* 0.7), and the two visibility keys.
CallKeys == {condition_keys[15], condition_keys[16], is_customer_facing, is_internal}

CallContexts ==
    UNION {[D -> BOOLEAN] : D \in {K \in SUBSET CallKeys : Cardinality(K) <= MaxContextKeys}}

InitCall ==
    /\ sname \in CallNames
    /\ context \in CallContexts
    /\ result = <<0, 0>>
    /\ pc = "ready"
    /\ components = <<>> /\ dependencies = <<>>
    /\ analysis = NoAnalysis
    /\ IdleAnalyzer
    /\ IdleMatcher
    /\ IdleWorkflow

\* score_component(sname, context), lines 378-403.
ScoreComponent ==
    /\ pc = "ready"
    /\ LET r == ScoreComponentResult(sname, context)
       IN IF r.raised
          THEN pc' = "raised" /\ result' = <<0, 0>>
          ELSE pc' = "scored" /\ result' = r.value
    /\ UNCHANGED <<components, dependencies, analysis, insightsBy, done, recsSaw, stack, ret, paths, root, calls, sname, context, textA, textB, config, file, steps, locals, outcome>>

NextCall == ScoreComponent

SpecCall == InitCall /\ [][NextCall]_vars

\* The patterns a name is exactly the key of, or exactly an alias of.
ExactPatterns(name) ==
    {i \in 1..Len(patterns) : name = patterns[i].name \/ name \in Range(patterns[i].examples)}

\* C11: a name that is exactly the key or an alias of a known pattern is
\* scored with that pattern's stage score and default visibility and with a
\* confidence of at least 0.9, whatever the context holds.
C11_PatternPriority ==
    (pc = "scored" /\ ExactPatterns(sname) # {}) =>
        /\ Len(result) = 3
        /\ \E i \in ExactPatterns(sname) : <<result[1], result[2]>> = PatternScores(patterns[i])
        /\ result[3] >= 90

\* The part of C11 about the two scores: they are those of the pattern the
\* name is the key or an alias of, whatever the context holds.
PatternPriorityScores ==
    (pc = "scored" /\ ExactPatterns(sname) # {}) =>
        \E i \in ExactPatterns(sname) : result = PatternScores(patterns[i])

\* An alias scored as its pattern, with rule and visibility flags set.
PatternPriorityReached ==
    /\ pc = "scored"
    /\ sname = <<"T", "F">> /\ result = <<70, 30>>
    /\ DOMAIN context = {condition_keys[15], is_customer_facing}
    /\ context[condition_keys[15]] /\ context[is_customer_facing]

\* The rules of self.rules whose condition key is truthy in a context.
ApplicableRules(ctx) == {i \in 1..Len(rules) : EvaluateRuleCondition(i, ctx)}

\* C12: score_component returns the two scores together with a confidence
\* between 0 and 1 that the tier decides: 0.95 for a name that is a pattern
\* key, the confidence of an applicable rule for a name no pattern matches,
\* at most 0.5 when no rule applies.
C12_ConfidenceByTier ==
    (pc = "scored") =>
        /\ Len(result) = 3
        /\ result[3] \in 0..100
        /\ (\E i \in 1..Len(patterns) : patterns[i].name = sname) => result[3] = 95
        /\ (sname = <<"Z", "e", "d">> /\ ApplicableRules(context) # {}) =>
               \E i \in ApplicableRules(context) : result[3] = rules[i].confidence
        /\ (sname = <<"Z", "e", "d">> /\ ApplicableRules(context) = {}) => result[3] \in {30, 50}

\* What score_component returns: the two scores and nothing else.
ReturnsTwoScores == (pc = "scored") => Len(result) = 2

\* No visibility keyword in the name and no visibility flag in the context.
NoVisibilitySignal(name, ctx) ==
    /\ ~AnyWordIn(high_visibility, Lower(name))
    /\ ~AnyWordIn(medium_visibility, Lower(name))
    /\ ~AnyWordIn(low_visibility, Lower(name))
    /\ ~ContextGet(ctx, is_customer_facing, FALSE)
    /\ ~ContextGet(ctx, is_internal, FALSE)

\* The case of the numeric default: no pattern matches the name, no rule
\* applies, no visibility signal fires.
NumericDefaultCase ==
    /\ ApplicableRules(context) = {}
    /\ NoVisibilitySignal(sname, context)
    /\ PatternTiers(sname) = Value(<<>>)

\* C13: when no pattern matches the name, exactly or fuzzily, no rule
\* condition key is truthy in the context and no visibility signal fires,
\* score_component returns evolution 0.5 and visibility 0.5 with confidence
\* 0.3.
C13_NumericDefault ==
    (pc = "scored" /\ NumericDefaultCase) => result = <<50, 50, 30>>

\* The part of C13 about the two scores.
NumericDefaultScores ==
    (pc = "scored" /\ NumericDefaultCase) => result = <<50, 50>>

\* score_component("Totally Novel Widget", {}) has returned the defaults.
NumericDefaultReached ==
    /\ pc = "scored" /\ context = <<>>
    /\ sname = <<"T", "o", "t", "a", "l", "l", "y", " ", "N", "o", "v", "e", "l", " ", "W", "i", "d", "g", "e", "t">>
    /\ result = <<50, 50>>

(***************************************************************************)
(* SpecStage: the stage of one evolution value, asked of the scorer        *)
(* (_score_to_stage) and of the analyzer (_stage_label), in either order.  *)
(* result holds the two answers, "" for one not yet given.                 *)
(***************************************************************************)
\* The evolution values of [0, 1], in hundredths.
StageScores == 0..100

InitStage ==
    /\ \E e \in StageScores : components = <<[name |-> "A", evolution |-> e, visibility |-> 50]>>
    /\ dependencies = <<>>
    /\ result = <<"", "">>
    /\ sname = <<>> /\ context = <<>>
    /\ pc = "ready"
    /\ analysis = NoAnalysis
    /\ IdleAnalyzer
    /\ IdleMatcher
    /\ IdleWorkflow

\* self._score_to_stage(evolution), as get_component_rationale calls it.
CallScoreToStage ==
    /\ result[1] = ""
    /\ result' = <<ScoreToStage(components[1].evolution), result[2]>>
    /\ UNCHANGED <<components, dependencies, pc, analysis, insightsBy, done, recsSaw, stack, ret, paths, root, calls, sname, context, textA, textB, config, file, steps, locals, outcome>>

\* self._stage_label(comp['evolution']), as the passes of analyze call it.
CallStageLabel ==
    /\ result[2] = ""
    /\ result' = <<result[1], StageLabel(components[1].evolution)>>
    /\ UNCHANGED <<components, dependencies, pc, analysis, insightsBy, done, recsSaw, stack, ret, paths, root, calls, sname, context, textA, textB, config, file, steps, locals, outcome>>

NextStage ==
    \/ CallScoreToStage
    \/ CallStageLabel

SpecStage == InitStage /\ [][NextStage]_vars

\* The bands of the four stages, in hundredths: each boundary value in the
\* higher band.
StageBands ==
    [Genesis |-> 0..24, Custom |-> 25..54, Product |-> 55..79, Commodity |-> 80..100]

\* C14: every evolution value of [0, 1] is in the band of the stage the
\* scorer's _score_to_stage gives it and in no other band, 0.25, 0.55 and
\* 0.8 being in the higher band, and the analyzer's _stage_label gives the
\* same stage.
C14_StageConsistency ==
    LET e == components[1].evolution
    IN /\ (result[1] # "") =>
             /\ result[1] \in DOMAIN StageBands
             /\ \A s \in DOMAIN StageBands : (e \in StageBands[s]) <=> (s = result[1])
       /\ (result[1] # "" /\ result[2] # "") => result[1] = result[2]

\* Both functions have answered for a boundary value.
C14_Witness ==
    /\ components[1].evolution \in {25, 55, 80}
    /\ result \in {<<"Custom", "Custom">>, <<"Product", "Product">>, <<"Commodity", "Commodity">>}

(***************************************************************************)
(* SpecSim: two strings compared in both orders, by the similarity of the  *)
(* link validator (pc = "similarity") or by the fuzzy match of the scorer  *)
(* (pc = "match").  result holds the answer for (textA, textB) and the     *)
(* answer for (textB, textA), each <<>> until it is given.                 *)
(***************************************************************************)
\* Letters of both cases and a blank.
TextAlphabet == {"a", "b", "A", " "}

\* Longer strings: two ten-letter names one edit apart, two five-letter
\* names one edit apart, and the character whose lower case is two
\* characters.
ChosenTexts ==
    {<<"K", "u", "b", "e", "r", "n", "e", "t", "e", "s">>,
     <<"k", "u", "b", "e", "r", "n", "e", "t", "e", "z">>,
     <<"R", "e", "a", "c", "t">>,
     <<"r", "e", "a", "k", "t">>,
     <<"I-dot">>}

Texts == SeqsUpTo(TextAlphabet, MaxNameLen) \cup ChosenTexts

InitSim ==
    /\ textA \in Texts
    /\ textB \in Texts
    /\ pc \in {"similarity", "match"}
    /\ result = <<<<>>, <<>>>>
    /\ sname = <<>> /\ context = <<>>
    /\ components = <<>> /\ dependencies = <<>>
    /\ analysis = NoAnalysis
    /\ IdleAnalyzer
    /\ IdleWorkflow

\* The step that records an answer in place k of result, or the exception.
Answer(k, r) ==
    /\ result[k] = <<>>
    /\ IF r.raised
       THEN pc' = "raised" /\ result' = result
       ELSE pc' = pc /\ result' = [result EXCEPT ![k] = <<r.value>>]
    /\ UNCHANGED <<components, dependencies, analysis, insightsBy, done, recsSaw, stack, ret, paths, root, calls, sname, context, textA, textB, config, file, steps, locals, outcome>>

\* _calculate_similarity(textA, textB)
SimilarityForward == pc = "similarity" /\ Answer(1, CalculateSimilarity(textA, textB))

\* _calculate_similarity(textB, textA)
SimilarityBackward == pc = "similarity" /\ Answer(2, CalculateSimilarity(textB, textA))

\* _fuzzy_match(textA, textB)
MatchForward == pc = "match" /\ Answer(1, FuzzyMatch(textA, textB))

\* _fuzzy_match(textB, textA)
MatchBackward == pc = "match" /\ Answer(2, FuzzyMatch(textB, textA))

NextSim ==
    \/ SimilarityForward
    \/ SimilarityBackward
    \/ MatchForward
    \/ MatchBackward

SpecSim == InitSim /\ [][NextSim]_vars

\* C15: the similarity of (a, b) is the similarity of (b, a), and the match
\* decision for (a, b) is the match decision for (b, a), for all strings a
\* and b, whichever branch answers: equal strings, substring, edit distance.
C15_FuzzyMatchSymmetry ==
    /\ pc # "raised"
    /\ (result[1] # <<>> /\ result[2] # <<>>) => result[1] = result[2]

\* Both orders have answered in the edit-distance branch: a similarity of
\* two strings that are neither equal nor one inside the other, and a match
\* of two names one edit apart.
C15_Witness ==
    /\ result[1] # <<>> /\ result[2] # <<>>
    /\ \/ pc = "similarity" /\ textA = <<"a", "b">> /\ textB = <<"b", " ">> /\ result[1] = <<<<0, 2>>>>
       \/ /\ pc = "match" /\ result[1] = <<TRUE>>
          /\ textA = <<"K", "u", "b", "e", "r", "n", "e", "t", "e", "s">>
          /\ textB = <<"k", "u", "b", "e", "r", "n", "e", "t", "e", "z">>

(***************************************************************************)
(* SpecTyped: one call of analyze on an edge list whose entries are        *)
(* (source, target) or (source, target, dependency_type).                  *)
(***************************************************************************)
\* No component, or two components of three profiles.
TypedComponents ==
    {<<>>} \cup {<<Component(1, p), Component(2, q)>> : p, q \in {<<20, 70>>, <<40, 30>>, <<90, 10>>}}

\* An edge without a type, and an edge of each dependency type.
TypedEdges ==
    {<<"A", "B">>, <<"A", "B", "strong">>, <<"B", "A", "weak">>, <<"A", "A", "constraint">>}

TypedInputs == TypedComponents \X SeqsUpTo(TypedEdges, MaxDeps)

InitTyped ==
    /\ \E in \in TypedInputs : components = in[1] /\ dependencies = in[2]
    /\ pc = "ready"
    /\ analysis = NoAnalysis
    /\ IdleAnalyzer
    /\ IdleScorer
    /\ IdleMatcher
    /\ IdleWorkflow

SpecTyped == InitTyped /\ [][Next]_vars

\* The edge list with every entry cut down to (source, target).
AsPairs(deps) == [i \in 1..Len(deps) |-> <<deps[i][1], deps[i][2]>>]

\* C16: an entry (source, target, dependency_type) is processed as the edge
\* source -> target exactly like the entry (source, target), without
\* raising: whenever analyze returns for the edge list cut down to pairs, it
\* returns the same MapAnalysis for the edge list as given.
C16_TypedEdgesAccepted ==
    (pc # "ready") =>
        LET r == AnalyzeResult(components, AsPairs(dependencies))
        IN ~r.raised => (pc = "done" /\ analysis = r.analysis)

\* What the code does with a typed entry: every call of analyze with an
\* entry of three elements raises.
TypedEdgeRaises ==
    (pc # "ready" /\ \E i \in 1..Len(dependencies) : Len(dependencies[i]) = 3) => pc = "raised"

(***************************************************************************)
(* Claims about the rule, keyword and fuzzy tiers of the scorer.           *)
(***************************************************************************)
\* Rule i comes before rule j in the order (priority, confidence), highest
\* first.
Outranks(i, j) ==
    \/ rules[i].priority > rules[j].priority
    \/ rules[i].priority = rules[j].priority /\ rules[i].confidence > rules[j].confidence

\* C21: when the name matches no pattern and some rule's condition key is
\* truthy in the context, the evolution returned is the stage score of a
\* rule whose key is truthy and that no rule with a truthy key outranks in
\* (priority, confidence); a rule whose key is absent or falsy is never the
\* one selected.
C21_RuleEvaluation ==
    (pc = "scored" /\ ApplicableRules(context) # {}) =>
        \E i \in ApplicableRules(context) :
            /\ \A j \in ApplicableRules(context) : ~Outranks(j, i)
            /\ result[1] = StageToScore(rules[i].stage)

\* A lower-ranked rule first in the table (Product, 0.85) and a
\* higher-ranked rule after it (Custom, 0.9), both truthy: Custom is scored.
C21_Witness ==
    /\ pc = "scored"
    /\ sname = <<"Z", "e", "d">>
    /\ ApplicableRules(context) = {1, 3}
    /\ result[1] = 40

\* The visibility keyword lists in the order _score_visibility_heuristic
\* tries them, and the value each gives.
VisibilityLists == <<high_visibility, medium_visibility, low_visibility>>

VisibilityValues == <<85, 50, 20>>

\* The lists with a keyword in the lower-cased name.
MatchedLists(name) == {k \in 1..3 : AnyWordIn(VisibilityLists[k], Lower(name))}

RECURSIVE SumOver(_, _)
SumOver(f, S) == IF S = {} THEN 0 ELSE LET x == CHOOSE y \in S : TRUE IN f[x] + SumOver(f, S \ {x})

\* No pattern matches the name, exactly or fuzzily.
NoPatternMatches(name) == PatternTiers(name) = Value(<<>>)

\* C22 as stated: when no pattern matches, the visibility returned is the
\* mean of the values of the keyword lists (high, medium, low) with a
\* keyword in the name, so a name with keywords of two lists gets a value
\* between the two.
C22_VisibilityIsMeanOfLists ==
    (pc = "scored" /\ MatchedLists(sname) # {} /\ NoPatternMatches(sname)) =>
        Cardinality(MatchedLists(sname)) * result[2] = SumOver(VisibilityValues, MatchedLists(sname))

\* C22, amended: when no pattern matches, the visibility returned is the
\* value of the first of the lists high (0.85), medium (0.5), low (0.2) with
\* a keyword in the name: a name with keywords of two lists gets the value
\* of the earlier list alone.
C22_VisibilityIsFirstList ==
    (pc = "scored" /\ MatchedLists(sname) # {} /\ NoPatternMatches(sname)) =>
        \E k \in MatchedLists(sname) :
            /\ \A j \in MatchedLists(sname) : k <= j
            /\ result[2] = VisibilityValues[k]

\* A name with a keyword of the low list and a keyword of the high list,
\* scored with the value of the high list.
C22_Witness ==
    /\ pc = "scored"
    /\ sname = <<"c", "o", "r", "e", " ", "p", "o", "r", "t", "a", "l">>
    /\ MatchedLists(sname) = {1, 3}
    /\ result[2] = 85

\* AdvancedNLPParser.evolution_keywords (advanced_nlp_parser.py 57-88): the
\* keywords of the four evolution stages.
evolution_keywords ==
    [
      genesis |-> <<
           <<"i", "n", "n", "o", "v", "a", "t", "i", "v", "e">>,
           <<"e", "x", "p", "e", "r", "i", "m", "e", "n", "t", "a", "l">>,
           <<"n", "o", "v", "e", "l">>,
           <<"r", "e", "s", "e", "a", "r", "c", "h">>,
           <<"p", "r", "o", "t", "o", "t", "y", "p", "e">>,
           <<"a", "l", "p", "h", "a">>,
           <<"u", "n", "p", "r", "e", "c", "e", "d", "e", "n", "t", "e", "d">>,
           <<"b", "r", "e", "a", "k", "t", "h", "r", "o", "u", "g", "h">>,
           <<"c", "u", "t", "t", "i", "n", "g", "-", "e", "d", "g", "e">>,
           <<"p", "i", "o", "n", "e", "e", "r", "i", "n", "g">>,
           <<"e", "m", "e", "r", "g", "i", "n", "g">>,
           <<"e", "x", "p", "l", "o", "r", "a", "t", "i", "o", "n">>,
           <<"s", "p", "e", "c", "u", "l", "a", "t", "i", "v", "e">>,
           <<"u", "n", "p", "r", "o", "v", "e", "n">>,
           <<"b", "e", "t", "a">>>>,
      custom |-> <<
           <<"c", "u", "s", "t", "o", "m">>,
           <<"b", "e", "s", "p", "o", "k", "e">>,
           <<"p", "r", "o", "p", "r", "i", "e", "t", "a", "r", "y">>,
           <<"d", "i", "f", "f", "e", "r", "e", "n", "t", "i", "a", "t", "e", "d">>,
           <<"u", "n", "i", "q", "u", "e">>,
           <<"s", "p", "e", "c", "i", "a", "l", "i", "z", "e", "d">>,
           <<"i", "n", "-", "h", "o", "u", "s", "e">>,
           <<"h", "o", "m", "e", "g", "r", "o", "w", "n">>,
           <<"t", "a", "i", "l", "o", "r", "e", "d">>,
           <<"h", "a", "n", "d", "c", "r", "a", "f", "t", "e", "d">>,
           <<"s", "p", "e", "c", "i", "f", "i", "c">>,
           <<"p", "r", "o", "p", "r", "i", "e", "t", "a", "r", "y">>,
           <<"c", "o", "m", "p", "e", "t", "i", "t", "i", "v", "e", " ", "a", "d", "v", "a", "n", "t", "a", "g", "e">>,
           <<"s", "t", "r", "a", "t", "e", "g", "i", "c", " ", "a", "s", "s", "e", "t">>>>,
      product |-> <<
           <<"p", "r", "o", "d", "u", "c", "t">>,
           <<"s", "o", "l", "u", "t", "i", "o", "n">>,
           <<"p", "l", "a", "t", "f", "o", "r", "m">>,
           <<"s", "e", "r", "v", "i", "c", "e">>,
           <<"o", "f", "f", "e", "r", "i", "n", "g">>,
           <<"p", "a", "c", "k", "a", "g", "e">>,
           <<"c", "o", "m", "m", "e", "r", "c", "i", "a", "l">>,
           <<"m", "a", "t", "u", "r", "e">>,
           <<"s", "t", "a", "b", "l", "e">>,
           <<"e", "s", "t", "a", "b", "l", "i", "s", "h", "e", "d">>,
           <<"p", "r", "o", "v", "e", "n">>,
           <<"m", "a", "i", "n", "s", "t", "r", "e", "a", "m">>,
           <<"m", "a", "r", "k", "e", "t", "-", "r", "e", "a", "d", "y">>,
           <<"p", "r", "o", "d", "u", "c", "t", "i", "o", "n">>>>,
      commodity |-> <<
           <<"c", "o", "m", "m", "o", "d", "i", "t", "y">>,
           <<"u", "t", "i", "l", "i", "t", "y">>,
           <<"s", "t", "a", "n", "d", "a", "r", "d">>,
           <<"o", "u", "t", "s", "o", "u", "r", "c", "e", "d">>,
           <<"c", "l", "o", "u", "d">>,
           <<"s", "a", "a", "s">>,
           <<"o", "f", "f", "-", "t", "h", "e", "-", "s", "h", "e", "l", "f">>,
           <<"c", "o", "t", "s">>,
           <<"c", "o", "m", "m", "o", "n">>,
           <<"g", "e", "n", "e", "r", "i", "c">>,
           <<"w", "i", "d", "e", "l", "y", "-", "a", "v", "a", "i", "l", "a", "b", "l", "e">>,
           <<"i", "n", "d", "u", "s", "t", "r", "y", "-", "s", "t", "a", "n", "d", "a", "r", "d">>,
           <<"u", "b", "i", "q", "u", "i", "t", "o", "u", "s">>,
           <<"c", "o", "m", "m", "o", "d", "i", "t", "y">>,
           <<"f", "u", "n", "g", "i", "b", "l", "e">>>>
    ]

\* A keyword of some evolution stage is in the lower-cased name.
HasEvolutionKeyword(name) ==
    \E stage \in DOMAIN evolution_keywords :
        AnyWordIn(evolution_keywords[stage], Lower(name))

\* C23 as stated: when the name matches no pattern and no rule matched, the
\* evolution comes from the evolution keywords in the name, and the default
\* 0.5 is returned only when the name holds no evolution keyword either.
C23_DefaultOnlyWithoutKeyword ==
    (pc = "scored" /\ ApplicableRules(context) = {} /\ result[1] = 50 /\ NoPatternMatches(sname)) =>
        ~HasEvolutionKeyword(sname)

\* C23, amended: when the name matches no pattern and no rule matched, the
\* evolution returned is the default 0.5, whatever keywords the name holds.
C23_DefaultWithoutRule ==
    (pc = "scored" /\ ApplicableRules(context) = {} /\ NoPatternMatches(sname)) =>
        result[1] = 50

\* A name with the genesis keyword "novel", no rule key truthy, scored 0.5.
C23_Witness ==
    /\ pc = "scored"
    /\ sname = <<"T", "o", "t", "a", "l", "l", "y", " ", "N", "o", "v", "e", "l", " ", "W", "i", "d", "g", "e", "t">>
    /\ HasEvolutionKeyword(sname)
    /\ ApplicableRules(context) = {}
    /\ result[1] = 50

\* The two strings of a match as _fuzzy_match compares them.
NormalA == Strip(Lower(textA))

NormalB == Strip(Lower(textB))

\* One of the two strings contains the other.
OneContainsOther == IsSubstring(NormalA, NormalB) \/ IsSubstring(NormalB, NormalA)

\* C24: the match decision (threshold 0.8 = 4/5) holds exactly when the
\* similarity of the two strings is at least the threshold or one string
\* contains the other: a pair whose similarity is the threshold exactly is a
\* match.
C24_MatchAtThreshold ==
    (pc = "match" /\ result[1] # <<>>) =>
        LET sim == LevenshteinSimilarity(NormalA, NormalB).value
        IN result[1][1] = (OneContainsOther \/ 5 * sim[1] >= 4 * sim[2])

\* What _fuzzy_match decides: a match exactly when one string contains the
\* other or the similarity is above the threshold.
MatchAboveThreshold ==
    (pc = "match" /\ result[1] # <<>>) =>
        LET sim == LevenshteinSimilarity(NormalA, NormalB).value
        IN result[1][1] = (OneContainsOther \/ 5 * sim[1] > 4 * sim[2])

\* The similarity the claim C25 gives for two lower-cased strings that are
\* not both empty: 1.0 when equal, 0.85 when one contains the other,
\* otherwise 1 - edit_distance / max(len, len), as a ratio.
ClaimedSimilarity(a, b) ==
    LET max_len == IF Len(a) >= Len(b) THEN Len(a) ELSE Len(b)
    IN IF a = b THEN <<1, 1>>
       ELSE IF IsSubstring(a, b) \/ IsSubstring(b, a) THEN <<17, 20>>
       ELSE <<max_len - LevenshteinDistance(a, b), max_len>>

\* C25: the similarity is 1.0 for equal non-empty strings (case ignored),
\* 0.85 when one contains the other, otherwise 1 - edit_distance / max
\* length; for two empty strings it is 0.0 and the pair is no match; no
\* call divides by zero.
C25_SimilarityValues ==
    /\ pc # "raised"
    /\ (pc = "similarity" /\ result[1] # <<>>) =>
          IF Lower(textA) = <<>> /\ Lower(textB) = <<>>
          THEN result[1][1][1] = 0
          ELSE result[1][1] = ClaimedSimilarity(Lower(textA), Lower(textB))
    /\ (pc = "match" /\ result[1] # <<>> /\ NormalA = <<>> /\ NormalB = <<>>) =>
          result[1][1] = FALSE

\* What the code gives for two empty strings: similarity 1.0, and a match
\* (for the match also when the strings are blanks only); every other pair
\* is as C25 says.
EmptyPairIsExactMatch ==
    /\ pc # "raised"
    /\ (pc = "similarity" /\ result[1] # <<>>) =>
          result[1][1] = ClaimedSimilarity(Lower(textA), Lower(textB))
    /\ (pc = "match" /\ result[1] # <<>> /\ NormalA = <<>> /\ NormalB = <<>>) =>
          result[1][1] = TRUE


(***************************************************************************)
(* The enrichment workflow of the ontology extension: enrich_field and     *)
(* fix_broken_links.  The ontology library, the enrichment API, the file   *)
(* system and git are outside the workflow; each of their calls answers    *)
(* with any of the outcomes it can have.                                   *)
(*                                                                         *)
(* file is the content of the ontology file: "working" (what the call      *)
(* found), "enriched" (after write_ontology_block), "fixed" (after the     *)
(* link validator rewrote links), "partial" (a write that raised part way) *)
(* or "HEAD" (restored by git checkout).  steps is the list of checks the  *)
(* call has passed and of the writes and rollbacks it has started.         *)
(***************************************************************************)
\* The wiki-links a file may hold.
MaxLinks == 2

Links == 1..MaxLinks

\* EnrichmentConfig: the fields the workflow branches on, with the default
\* minimum length.
EnrichmentConfig ==
    [require_citations : BOOLEAN, auto_rollback : BOOLEAN, min_definition_length : {50}]

\* The locals of a call before it has run.
NoLocals(call, auto_fix) ==
    [call |-> call, auto_fix |-> auto_fix, citations |-> 0, enriched_content |-> 0,
     rollback_performed |-> FALSE, report |-> <<>>, fixed_report |-> <<>>, valid |-> <<>>]

InitWorkflow ==
    /\ config \in EnrichmentConfig
    /\ \/ pc = "enrich_field" /\ locals = NoLocals("enrich_field", FALSE)
       \/ pc = "fix_broken_links" /\ \E auto_fix \in BOOLEAN : locals = NoLocals("fix_broken_links", auto_fix)
    /\ file = "working"
    /\ steps = <<>>
    /\ outcome = <<>>
    /\ components = <<>> /\ dependencies = <<>>
    /\ analysis = NoAnalysis
    /\ IdleAnalyzer
    /\ IdleScorer
    /\ IdleMatcher

\* EnrichmentResult, with the number of citations and the length of the
\* enriched content in place of the data.
EnrichmentResult(success, l) ==
    [success |-> success, enriched_content |-> l.enriched_content,
     citations |-> l.citations, rollback_performed |-> l.rollback_performed]

\* LinkReport of a file with the given broken links.
LinkReport(broken, fixes) == [broken_links |-> broken, fixes_applied |-> fixes]

\* Variant of CitationsMissing for which citations are never required.
CitationsMissing_NeverRequired(cfg, citations) == FALSE

\* The citation requirement of the configuration fails.
CitationsMissing(cfg, citations) == cfg.require_citations /\ citations = 0

\* The enriched content is shorter than the configured minimum.
TooShort(cfg, length) == length < cfg.min_definition_length

\* _rollback(file_path): git checkout of the file, which restores it (ok) or
\* fails and leaves it; never raises.
Rollback(ok) ==
    /\ steps' = Append(steps, "_rollback")
    /\ file' = IF ok THEN "HEAD" ELSE file

\* A statement in the try block of enrich_field raised.
Fail ==
    /\ pc' = "except"
    /\ UNCHANGED <<file, steps, locals, outcome>>

\* A check of enrich_field passed.
Pass(check, next) ==
    /\ pc' = next
    /\ steps' = Append(steps, check)
    /\ UNCHANGED <<file, locals, outcome>>

\* Step 1: parse_ontology_block and the test of the field's content.
ParseOntologyBlock ==
    /\ pc = "enrich_field"
    /\ \E parsed \in {"raises", "empty", "content"} :
          IF parsed = "content" THEN Pass("field_found", "validate_ontology") ELSE Fail
    /\ UNCHANGED <<config, analyzerVarsButPc, scorerVars, matcherVars>>

\* Step 2: validate_ontology before the modification.
ValidateOntology ==
    /\ pc = "validate_ontology"
    /\ \E validation \in {"raises", "invalid", "valid"} :
          IF validation = "valid" THEN Pass("initial_validation", "enrich_definition") ELSE Fail
    /\ UNCHANGED <<config, analyzerVarsButPc, scorerVars, matcherVars>>

\* Step 3: the enrichment query and the requirements on its answer.
EnrichDefinition ==
    /\ pc = "enrich_definition"
    /\ \/ Fail
       \/ \E citations \in 0..1, length \in {49, 50} :
             /\ locals' = [locals EXCEPT !.citations = citations, !.enriched_content = length]
             /\ UNCHANGED <<file, outcome>>
             /\ IF CitationsMissing(config, citations)
                THEN pc' = "except" /\ steps' = steps
                ELSE IF TooShort(config, length)
                     THEN pc' = "except" /\ steps' = Append(steps, "citations")
                     ELSE pc' = "modify_field" /\ steps' = steps \o <<"citations", "min_length">>
    /\ UNCHANGED <<config, analyzerVarsButPc, scorerVars, matcherVars>>

\* Steps 4 and 5: modify_field and validate_modification.
ModifyField ==
    /\ pc = "modify_field"
    /\ \E modification \in {"raises", "rejected", "accepted"} :
          IF modification = "accepted" THEN Pass("validate_modification", "final_validation") ELSE Fail
    /\ UNCHANGED <<config, analyzerVarsButPc, scorerVars, matcherVars>>

\* The final validate_ontology of the modified ontology.
FinalValidation ==
    /\ pc = "final_validation"
    /\ \E validation \in {"raises", "invalid", "valid"} :
          IF validation = "valid" THEN Pass("final_validation", "write_ontology_block") ELSE Fail
    /\ UNCHANGED <<config, analyzerVarsButPc, scorerVars, matcherVars>>

\* Step 6: write_ontology_block and the successful return; a write that
\* raises may have left the file as it was or partly written.
WriteOntologyBlock ==
    /\ pc = "write_ontology_block"
    /\ steps' = Append(steps, "write_ontology_block")
    /\ \/ /\ file' = "enriched"
          /\ outcome' = EnrichmentResult(TRUE, [locals EXCEPT !.rollback_performed = FALSE])
          /\ pc' = "returned"
       \/ /\ file' \in {file, "partial"}
          /\ outcome' = outcome
          /\ pc' = "except"
    /\ UNCHANGED <<config, locals, analyzerVarsButPc, scorerVars, matcherVars>>

\* Step 7: the except block of enrich_field.
HandleException ==
    /\ pc = "except"
    /\ IF config.auto_rollback
       THEN \E ok \in BOOLEAN :
               /\ Rollback(ok)
               /\ locals' = [locals EXCEPT !.rollback_performed = ok]
       ELSE UNCHANGED <<file, steps, locals>>
    /\ outcome' = EnrichmentResult(FALSE, locals')
    /\ pc' = "returned"
    /\ UNCHANGED <<config, analyzerVarsButPc, scorerVars, matcherVars>>

\* fix_broken_links up to the test of auto_fix: validate_links reads the file
\* (which may raise) and reports its broken links.
ValidateLinks ==
    /\ pc = "fix_broken_links"
    /\ \/ pc' = "raised" /\ UNCHANGED <<locals, outcome>>
       \/ \E broken \in SUBSET Links :
             LET report == LinkReport(broken, 0)
             IN /\ locals' = [locals EXCEPT !.report = report]
                /\ IF locals.auto_fix /\ broken # {}
                   THEN pc' = "auto_fix_links" /\ outcome' = outcome
                   ELSE pc' = "returned" /\ outcome' = report
    /\ UNCHANGED <<config, file, steps, analyzerVarsButPc, scorerVars, matcherVars>>

\* auto_fix_links: reads the file, replaces the links that have a confident
\* suggestion, writes the file when it replaced any and validates the links
\* again.  The read, the write and the second read may raise, and nothing
\* in fix_broken_links catches it.
AutoFixLinks ==
    /\ pc = "auto_fix_links"
    /\ \E fixable \in SUBSET locals.report.broken_links :
          \/ pc' = "raised" /\ UNCHANGED <<file, steps, locals>>
          \/ /\ fixable # {}
             /\ pc' = "raised"
             /\ steps' = Append(steps, "write_text")
             /\ file' \in {file, "partial", "fixed"}
             /\ locals' = locals
          \/ /\ pc' = "validate_file"
             /\ IF fixable # {}
                THEN steps' = Append(steps, "write_text") /\ file' = "fixed"
                ELSE UNCHANGED <<file, steps>>
             /\ locals' = [locals EXCEPT !.fixed_report =
                              LinkReport(locals.report.broken_links \ fixable, Cardinality(fixable))]
    /\ UNCHANGED <<config, outcome, analyzerVarsButPc, scorerVars, matcherVars>>

\* len(fixed_report.fixes_applied) in the message of line 293: fixes_applied
\* is the int that auto_fix_links counted (LinkReport.fixes_applied: int),
\* and len() of an int raises TypeError.
LenOfFixesApplied(report) == Raises("TypeError")

\* The validation after fixing (validate_file turns an exception into an
\* invalid result); then the rollback and the return of the first report,
\* or the message about the fixes and the return of the second.
ValidateFile ==
    /\ pc = "validate_file"
    /\ \E is_valid \in BOOLEAN :
          /\ locals' = [locals EXCEPT !.valid = <<is_valid>>]
          /\ IF ~is_valid
             THEN /\ \E ok \in BOOLEAN : Rollback(ok)
                  /\ outcome' = locals.report
                  /\ pc' = "returned"
             ELSE /\ UNCHANGED <<file, steps>>
                  /\ IF LenOfFixesApplied(locals.fixed_report).raised
                     THEN outcome' = outcome /\ pc' = "raised"
                     ELSE outcome' = locals.fixed_report /\ pc' = "returned"
    /\ UNCHANGED <<config, analyzerVarsButPc, scorerVars, matcherVars>>

NextWorkflow ==
    \/ ParseOntologyBlock
    \/ ValidateOntology
    \/ EnrichDefinition
    \/ ModifyField
    \/ FinalValidation
    \/ WriteOntologyBlock
    \/ HandleException
    \/ ValidateLinks
    \/ AutoFixLinks
    \/ ValidateFile

SpecWorkflow == InitWorkflow /\ [][NextWorkflow]_vars


(***************************************************************************)
(* Claims about the enrichment workflow, under SpecWorkflow.               *)
(***************************************************************************)
\* The checks of enrich_field that come before the write, in the order of
\* the code.
ChecksBeforeWrite ==
    <<"field_found", "initial_validation", "citations", "min_length",
      "validate_modification", "final_validation">>

WriteStarted == "write_ontology_block" \in Range(steps)

RollbackAttempted == "_rollback" \in Range(steps)

\* C26: enrich_field calls write_ontology_block only after the field was
\* found non-empty, the initial validation passed, the citation and length
\* requirements were met, validate_modification passed and the final
\* validation passed, in this order; when a step fails the file is not
\* written, the result has success = False and a rollback is attempted
\* exactly when auto_rollback is set; a result with success = True has
\* rollback_performed = False.
C26_WriteOnlyAfterAllChecks ==
    locals.call = "enrich_field" =>
        /\ WriteStarted =>
              /\ steps[Len(ChecksBeforeWrite) + 1] = "write_ontology_block"
              /\ SubSeq(steps, 1, Len(ChecksBeforeWrite)) = ChecksBeforeWrite
              /\ config.require_citations => locals.citations > 0
              /\ locals.enriched_content >= config.min_definition_length
        /\ ~WriteStarted => file \in {"working", "HEAD"}
        /\ file = "HEAD" => RollbackAttempted
        /\ pc = "returned" =>
              /\ outcome.success = (file = "enriched")
              /\ ~outcome.success => (RollbackAttempted = config.auto_rollback)
              /\ outcome.success => ~outcome.rollback_performed /\ ~RollbackAttempted

\* An enrichment that required citations has written the file and returned
\* success.
C26_Witness ==
    /\ locals.call = "enrich_field"
    /\ pc = "returned"
    /\ config.require_citations
    /\ outcome.success
    /\ file = "enriched"

\* An enrichment failed at the final validation and was rolled back.
RolledBackAfterFinalValidation ==
    /\ locals.call = "enrich_field"
    /\ pc = "returned"
    /\ Len(steps) = Len(ChecksBeforeWrite)
    /\ steps[Len(steps)] = "_rollback"
    /\ outcome.rollback_performed

\* The call is fix_broken_links(file, auto_fix = True) and the file has
\* broken links.
FixingBrokenLinks ==
    /\ locals.call = "fix_broken_links"
    /\ locals.auto_fix
    /\ locals.report # <<>>
    /\ locals.report.broken_links # {}

\* C27: fix_broken_links(file, auto_fix = True) on a file with broken links
\* returns a LinkReport in every case: the post-fix report, with
\* fixes_applied set, when the file passes validation after auto_fix_links,
\* and the pre-fix report after a rollback when it does not; with
\* auto_fix = False or no broken links it returns the validation report and
\* leaves the file unchanged.
C27_AlwaysReturnsLinkReport ==
    /\ FixingBrokenLinks =>
          /\ pc # "raised"
          /\ pc = "returned" =>
                IF locals.valid = <<TRUE>>
                THEN /\ outcome = locals.fixed_report
                     /\ ~RollbackAttempted
                ELSE /\ outcome = locals.report
                     /\ RollbackAttempted
    /\ (locals.call = "fix_broken_links" /\ pc = "returned" /\ ~FixingBrokenLinks) =>
          /\ outcome = locals.report
          /\ file = "working"
          /\ steps = <<>>

\* What the code gives: with auto_fix = True and broken links the call
\* returns only when the validation failed, and then the pre-fix report
\* after an attempted rollback; otherwise it raises.  Without auto_fix or
\* without broken links it returns the validation report and leaves the
\* file alone.
ReturnedLinkReport ==
    (locals.call = "fix_broken_links" /\ pc = "returned") =>
        IF FixingBrokenLinks
        THEN locals.valid = <<FALSE>> /\ outcome = locals.report /\ RollbackAttempted
        ELSE outcome = locals.report /\ file = "working" /\ steps = <<>>

\* The file passed the validation after auto_fix_links rewrote it, and the
\* call raised instead of returning the post-fix report.
RaisedAfterValidation ==
    /\ FixingBrokenLinks
    /\ pc = "raised"
    /\ locals.valid = <<TRUE>>
    /\ file = "fixed"
    /\ outcome = <<>>

\* auto_fix_links raised after it had rewritten the file: no report is
\* returned and no rollback is attempted.
RaisedAfterWrite ==
    /\ FixingBrokenLinks
    /\ pc = "raised"
    /\ file = "fixed"
    /\ ~RollbackAttempted


(***************************************************************************)
(* Claims about the critical path and the stage boundaries of the          *)
(* analyzer, under Spec.                                                   *)
(***************************************************************************)
IsSimplePath(p) == \A i, j \in 1..Len(p) : p[i] = p[j] => i = j

\* C28: critical_path is a simple path: no component name occurs in it more
\* than once, whatever the dependency list, cycles (A->B, B->A) and
\* self-loops (A->A) included; a node already on the current path of the
\* search ends the branch without being appended again.
C28_CriticalPathIsSimple ==
    (pc = "done") => IsSimplePath(analysis.critical_path)

\* What the code gives: only the last name of critical_path can be a
\* repetition, the node at which the search met its own path again.
OnlyLastNameRepeats ==
    (pc = "done" /\ analysis.critical_path # <<>>) =>
        IsSimplePath(SubSeq(analysis.critical_path, 1, Len(analysis.critical_path) - 1))

\* The path of a self-loop on a genesis component.
SelfLoopRepeatsRoot ==
    /\ pc = "done"
    /\ dependencies = <<<<"A", "A">>>>
    /\ analysis.critical_path = <<"A", "A">>

\* The component is treated as Custom by a strength, a vulnerability or the
\* competitive-moat recommendation.
CustomTriggered(cname) ==
    \/ \E i \in InsightsOf(analysis, "strength", cname) :
          analysis.insights[i].title = "Core Competitive Advantage"
    \/ SinglePointReports(cname) # {}
    \/ \E i \in 1..Len(analysis.strategic_recommendations) :
          /\ analysis.strategic_recommendations[i][1] = "COMPETITIVE MOAT"
          /\ cname \in Range(Tail(analysis.strategic_recommendations[i]))

\* The component is treated as Product by the increasing-competition threat.
ProductTriggered(cname) ==
    \E i \in InsightsOf(analysis, "threat", cname) :
        analysis.insights[i].title = "Increasing Competition"

\* C29: every component that receives a 'Core Competitive Advantage'
\* strength, a 'Single Point of Failure' vulnerability or a place in the
\* competitive-moat recommendation is labelled Custom by _stage_label
\* (evolution in [0.25, 0.55)), and no component is treated both as Custom by
\* these triggers and as Product by the increasing-competition threat.
C29_CustomTriggersAgreeWithStage ==
    (pc = "done") =>
        \A i \in 1..Len(components) :
            CustomTriggered(components[i].name) =>
                /\ StageLabel(components[i].evolution) = "Custom"
                /\ ~ProductTriggered(components[i].name)

\* What the code gives: the Custom triggers are closed at 0.55, where
\* _stage_label and the threat already say Product.
CustomTriggersIncludeBoundary ==
    (pc = "done") =>
        \A i \in 1..Len(components) :
            CustomTriggered(components[i].name) =>
                /\ 25 <= components[i].evolution /\ components[i].evolution <= 55
                /\ ProductTriggered(components[i].name) <=> components[i].evolution = 55

\* A component at evolution 0.55 is a Custom strength and a Product threat.
BoundaryIsCustomAndProduct ==
    /\ pc = "done"
    /\ \E i \in 1..Len(components) :
          /\ components[i].evolution = 55
          /\ CustomTriggered(components[i].name)
          /\ ProductTriggered(components[i].name)
          /\ StageLabel(components[i].evolution) = "Product"


(***************************************************************************)
(* Claim about names that are empty after normalisation, under SpecScore.  *)
(***************************************************************************)
\* The name is empty or blanks only.
BlankName == Strip(Lower(sname)) = <<>>

\* C30: score_component with an empty or whitespace-only name matches no
\* knowledge-base pattern, neither exactly nor through containment or edit
\* distance, and falls through to the rule, keyword and default tiers; with
\* an empty context it returns (0.5, 0.5).
C30_BlankNameFallsThrough ==
    (BlankName /\ pc # "ready") =>
        /\ PatternTiers(sname) = Value(<<>>)
        /\ (pc = "scored" /\ context = <<>>) => result = <<50, 50>>

\* What the code gives: the empty string is contained in every pattern key,
\* so the fuzzy tier matches the first pattern of the knowledge base and
\* the call returns its scores without reading the context.
BlankNameScoredByFirstPattern ==
    (BlankName /\ pc # "ready") =>
        /\ pc = "scored"
        /\ result = <<StageToScore(patterns[1].default_stage), patterns[1].default_visibility>>

\* A name of blanks has been scored as the first pattern.
BlankNameIsCommodity ==
    /\ pc = "scored"
    /\ sname = <<" ", " ">>
    /\ result = <<90, 15>>

====
